---- MODULE Spec2Model ----
(***************************************************************************)
(* The PR reviewer's MCP layer as state machines over one set of           *)
(* variables:                                                              *)
(*   Spec         one McpServersRegistry object (global_server/registry.py)*)
(*                whose asynchronous operations run step by step;          *)
(*   GlobalSpec   the module global mcp_registry and its accessors         *)
(*                (global_server/server.py, api_tools/registry_api.py);    *)
(*   MainSpec     the process entry point main() of global_server/server.py*)
(*   ClientSpec   MCPClient (mcp_client/client.py);                        *)
(*   WrapperSpec  MCPToolWrapper and its adapted tools                     *)
(*                (agent/mcp_tool_wrapper.py);                             *)
(*   GeminiSpec   GeminiClient (agent/gemini_client.py);                   *)
(*   ConcurrentSpec, ConcurrentClientSpec                                  *)
(*                two tasks of one event loop on one registry object and   *)
(*                on one MCPClient;                                        *)
(*   ManagerSpec  ConnectionManager (mcp_client/connection_manager.py);    *)
(*   ServersSpec  the tools of the Asana, Slack and GitHub servers         *)
(*                (servers/*_mcp/tools);                                   *)
(*   AgentScopeSpec  the prompt of the agent_scope server                  *)
(*                (servers/agent_scope_mcp).                               *)
(***************************************************************************)
EXTENDS Integers, Sequences, FiniteSets, TLC

(***************************************************************************)
(* Bounds of the model.                                                    *)
(***************************************************************************)
\* record_tool_usage calls that hit a known tool (the clock that stamps last_used)
MaxClock == 2
\* import attempts of one sub-server into one registry object
MaxImports == 2
\* registry objects constructed by initialize_global_server
MaxInstances == 2
\* Client objects an MCPClient makes
MaxClients == 2
\* requests sent to sessions
MaxRequests == 1
\* generate calls between two clear_conversation calls
MaxGenerate == 4
\* invocations of the adapted tools (event loops made)
MaxLoops == 2
\* status checks of one commit
MaxStatuses == 2

(***************************************************************************)
(* Python strings.  TLA+ strings are used as they are; the operators below *)
(* compute str.lower, the `in` substring test, startswith and              *)
(* split('_')[0] character by character.                                   *)
(***************************************************************************)
Upper == <<"A","B","C","D","E","F","G","H","I","J","K","L","M",
           "N","O","P","Q","R","S","T","U","V","W","X","Y","Z">>
LowerCase == <<"a","b","c","d","e","f","g","h","i","j","k","l","m",
               "n","o","p","q","r","s","t","u","v","w","x","y","z">>

LowerChar(c) ==
    IF \E i \in 1..Len(Upper) : Upper[i] = c
    THEN LowerCase[CHOOSE i \in 1..Len(Upper) : Upper[i] = c]
    ELSE c

RECURSIVE Lower(_)
Lower(s) ==
    IF Len(s) = 0 THEN ""
    ELSE LowerChar(SubSeq(s, 1, 1)) \o Lower(SubSeq(s, 2, Len(s)))

\* needle in hay
Contains(needle, hay) ==
    \E i \in 1..(Len(hay) - Len(needle) + 1) :
        SubSeq(hay, i, i + Len(needle) - 1) = needle

StartsWith(s, p) == Len(s) >= Len(p) /\ SubSeq(s, 1, Len(p)) = p

\* s.split('_')[0]
SplitFirst(s) ==
    IF Contains("_", s)
    THEN LET i == CHOOSE k \in 1..Len(s) :
                    /\ SubSeq(s, k, k) = "_"
                    /\ \A j \in 1..(k - 1) : SubSeq(s, j, j) # "_"
         IN SubSeq(s, 1, i - 1)
    ELSE s

Min(a, b) == IF a <= b THEN a ELSE b

\* seq[:k] of Python, k of either sign
Slice(seq, k) ==
    IF k >= 0 THEN SubSeq(seq, 1, Min(k, Len(seq)))
    ELSE SubSeq(seq, 1, IF Len(seq) + k >= 0 THEN Len(seq) + k ELSE 0)

(***************************************************************************)
(* Optional[T]: <<>> is None, <<v>> is the value v.                        *)
(***************************************************************************)
None == <<>>
Some(v) == <<v>>
\* Python truthiness of an Optional[str]
TruthyStr(o) == o # None /\ o[1] # ""

(***************************************************************************)
(* Insertion-ordered dict with string keys, as a sequence of records with  *)
(* a name field (the key).                                                 *)
(***************************************************************************)
Keys(d) == {d[i].name : i \in 1..Len(d)}
Has(d, k) == \E i \in 1..Len(d) : d[i].name = k
Get(d, k) == d[CHOOSE i \in 1..Len(d) : d[i].name = k]
DictSet(d, v) ==
    IF Has(d, v.name)
    THEN [i \in 1..Len(d) |-> IF d[i].name = v.name THEN v ELSE d[i]]
    ELSE Append(d, v)
Range(s) == {s[i] : i \in 1..Len(s)}

(***************************************************************************)
(* The sub-server apps (@app.tool / @app.prompt registrations).            *)
(***************************************************************************)
Tool(n, t, d) == [name |-> n, tags |-> t, description |-> d]

asana_mcp ==
    [tools |-> <<
        Tool("find_task_tool", {"asana", "task", "search", "pr-reviewer"},
             "Find an Asana task by its Global ID (GID)"),
        Tool("create_task_tool", {"asana", "task", "create", "pr-reviewer"},
             "Create a new Asana task with optional assignee and project"),
        Tool("list_tasks_tool", {"asana", "task", "list", "pr-reviewer"},
             "List Asana tasks with optional filters for project, assignee, and completion status")>>,
     prompts |-> <<>>]

slack_mcp ==
    [tools |-> <<
        Tool("post_message_tool", {"slack", "message", "send", "pr-reviewer"},
             "Post a message to a Slack channel with optional formatting and threading"),
        Tool("slack_conversation_history", {"slack", "message", "retrieve", "pr-reviewer"},
             "Get conversation history from a Slack channel with optional filtering and thread replies"),
        Tool("get_channels_tool", {"slack", "channel", "list", "pr-reviewer"},
             "Get list of Slack channels with their IDs and information for message posting")>>,
     prompts |-> <<>>]

agent_scope_mcp ==
    [tools |-> <<>>,
     prompts |-> <<
        [name |-> "pr_review_prompt",
         description |-> "Prompt for reviewing pull requests with Asana task context"]>>]

github_mcp ==
    [tools |-> <<
        Tool("get_pull_request_tool", {"github", "pull_request", "details", "pr-reviewer"},
             "Get comprehensive pull request information including metadata, author, and status"),
        Tool("get_pull_request_diff_tool", {"github", "pull_request", "diff", "pr-reviewer"},
             "Get the unified diff for a pull request showing all code changes"),
        Tool("get_pull_request_files_tool", {"github", "pull_request", "files", "pr-reviewer"},
             "Get the list of files changed in a pull request with their modifications"),
        Tool("get_pull_request_comments_tool", {"github", "pull_request", "comments", "pr-reviewer"},
             "Get review comments and discussion for a pull request"),
        Tool("get_pull_request_reviews_tool", {"github", "pull_request", "reviews", "pr-reviewer"},
             "Get formal reviews (approved, requested changes, comments) for a pull request"),
        Tool("get_pull_request_status_tool", {"github", "pull_request", "status", "ci", "pr-reviewer"},
             "Get status checks and CI/CD information for a pull request"),
        Tool("list_pull_requests_tool", {"github", "repository", "pull_requests", "list", "pr-reviewer"},
             "List all pull requests for a repository with metadata including PR numbers and descriptions")>>,
     prompts |-> <<>>]

\* the registry-management tools that register_api_tools adds, in order
ApiTools == <<
    Tool("search_tools", {"registry", "search", "tool-discovery"},
         "Search for tools using advanced filters"),
    Tool("get_tool_metadata", {"registry", "tools", "metadata"},
         "Get metadata for a specific tool"),
    Tool("get_tag_statistics", {"registry", "tags", "statistics"},
         "Get statistics about available tags"),
    Tool("get_popular_tools", {"registry", "tools", "popular"},
         "Get most frequently used tools"),
    Tool("get_tools_by_server", {"registry", "servers", "tools"},
         "Get all tools from a specific server"),
    Tool("get_tools_by_tags", {"registry", "tags", "discovery"},
         "Get tools that match multiple tags"),
    Tool("record_tool_usage", {"registry", "analytics", "usage"},
         "Record usage of a tool for analytics")>>

\* import order of initialize and the app behind each prefix
Prefixes == <<"asana", "slack", "scope", "github">>
ServerOf(p) ==
    CASE p = "asana" -> asana_mcp
      [] p = "slack" -> slack_mcp
      [] p = "scope" -> agent_scope_mcp
      [] p = "github" -> github_mcp

(***************************************************************************)
(* FastMCP as the registry uses it: the tool manager and the prompt        *)
(* manager are dicts keyed by name; import_server copies every tool and    *)
(* prompt of the sub-server under the key <prefix>_<name>.                 *)
(***************************************************************************)
EmptyApp == [tools |-> <<>>, prompts |-> <<>>]

RECURSIVE AddAll(_, _)
AddAll(d, items) ==
    IF items = <<>> THEN d
    ELSE AddAll(DictSet(d, Head(items)), Tail(items))

WithPrefix(items, prefix) ==
    [i \in 1..Len(items) |-> [items[i] EXCEPT !.name = prefix \o "_" \o @]]

import_server(app, server, prefix) ==
    [tools |-> AddAll(app.tools, WithPrefix(server.tools, prefix)),
     prompts |-> AddAll(app.prompts, WithPrefix(server.prompts, prefix))]

\* the catalog each _import_*_server leaves in self.registry
import_asana(app) == import_server(app, asana_mcp, "asana")
ImportSlackUnderAsanaPrefix(app) == import_server(app, slack_mcp, "asana")
import_slack(app) == import_server(app, slack_mcp, "slack")
import_agent_scope(app) == import_server(app, agent_scope_mcp, "scope")
import_github(app) == import_server(app, github_mcp, "github")
ImportInto(app, p) ==
    CASE p = "asana" -> import_asana(app)
      [] p = "slack" -> import_slack(app)
      [] p = "scope" -> import_agent_scope(app)
      [] p = "github" -> import_github(app)

\* register_api_tools: seven @app.tool registrations on the registry's app
register_api_tools(app) == [app EXCEPT !.tools = AddAll(@, ApiTools)]

(***************************************************************************)
(* ToolMetadata and the catalog builders of McpServersRegistry.            *)
(***************************************************************************)
ServerPrefix(tool_name) ==
    IF Contains("_", tool_name) THEN SplitFirst(tool_name) ELSE "unknown"

\* the parameters field (a schema blob no operation reads) is left out
ToolMetadata(tool) ==
    [name |-> tool.name,
     description |-> tool.description,
     tags |-> tool.tags,
     server_prefix |-> ServerPrefix(tool.name),
     usage_count |-> 0,
     last_used |-> None,
     is_deprecated |-> FALSE]

collect_all_tags(tags, tools) ==
    tags \cup UNION {tools[i].tags : i \in 1..Len(tools)}

build_tool_metadata(metadata, tools) ==
    AddAll(metadata, [i \in 1..Len(tools) |-> ToolMetadata(tools[i])])

BuildTagIndexFirstTagOnly(index, metadata) ==
    LET first(m) == IF m.tags = {} THEN {} ELSE {CHOOSE g \in m.tags : TRUE}
        new == UNION {first(metadata[i]) : i \in 1..Len(metadata)}
    IN [g \in (DOMAIN index) \cup new |->
           (IF g \in DOMAIN index THEN index[g] ELSE {})
           \cup {metadata[i].name : i \in {j \in 1..Len(metadata) : g \in first(metadata[j])}}]
build_tag_index(index, metadata) ==
    LET new == UNION {metadata[i].tags : i \in 1..Len(metadata)}
    IN [g \in (DOMAIN index) \cup new |->
           (IF g \in DOMAIN index THEN index[g] ELSE {})
           \cup {metadata[i].name : i \in {j \in 1..Len(metadata) : g \in metadata[j].tags}}]

(***************************************************************************)
(* Query operations, as functions of the catalog.                          *)
(***************************************************************************)
matches_tag_filter(m, required_tags) == required_tags \subseteq m.tags

\* str.lower of the strings of the full catalog, computed once
FullCatalog ==
    register_api_tools(import_github(import_agent_scope(import_slack(import_asana(EmptyApp)))))
CatalogStrings ==
    UNION {{tl.name, tl.description} \cup tl.tags : tl \in Range(FullCatalog.tools)}
LowerTable == [s \in CatalogStrings |-> Lower(s)]
lower(s) == IF s \in CatalogStrings THEN LowerTable[s] ELSE Lower(s)

matches_search_query(m, query) ==
    LET query_lower == lower(query)
    IN \/ Contains(query_lower, lower(m.name))
       \/ Contains(query_lower, lower(m.description))
       \/ \E tag \in m.tags : Contains(query_lower, lower(tag))

\* list.sort(key=usage_count, reverse=True): stable, equal keys keep their order.
\* The entries are gathered count by count, from the highest count down.
MaxUsage(results) ==
    IF results = <<>> THEN 0
    ELSE CHOOSE c \in {results[i].usage_count : i \in 1..Len(results)} :
            \A i \in 1..Len(results) : results[i].usage_count <= c

RECURSIVE WithUsageFrom(_, _)
WithUsageFrom(results, c) ==
    IF c < 0 THEN <<>>
    ELSE LET has(m) == m.usage_count = c
         IN SelectSeq(results, has) \o WithUsageFrom(results, c - 1)

SortByUsage(results) == WithUsageFrom(results, MaxUsage(results))

Names(results) == [i \in 1..Len(results) |-> results[i].name]

SearchFilter(metadata, a) ==
    LET required_tags == IF a.tags # None /\ a.tags[1] # <<>> THEN Range(a.tags[1]) ELSE {}
        keep(m) ==
            /\ ~(required_tags # {} /\ ~matches_tag_filter(m, required_tags))
            /\ ~(TruthyStr(a.server_prefix) /\ m.server_prefix # a.server_prefix[1])
            /\ ~(TruthyStr(a.query) /\ ~matches_search_query(m, a.query[1]))
    IN SelectSeq(metadata, keep)

search_tools(metadata, a) ==
    LET results == SortByUsage(SearchFilter(metadata, a))
    IN Names(IF a.limit # None /\ a.limit[1] # 0 THEN Slice(results, a.limit[1]) ELSE results)

get_tools_by_tag(index, tools, tag) ==
    IF tag \in DOMAIN index
    THEN {name \in index[tag] : Has(tools, name)}
    ELSE {}

RECURSIVE IntersectTags(_, _, _)
IntersectTags(index, tags, matching) ==
    IF tags = <<>> THEN matching
    ELSE IF Head(tags) \in DOMAIN index
    THEN IntersectTags(index, Tail(tags),
                       IF matching = None THEN Some(index[Head(tags)])
                       ELSE Some(matching[1] \cap index[Head(tags)]))
    ELSE Some({})

RECURSIVE UnionTags(_, _, _)
UnionTags(index, tags, matching) ==
    IF tags = <<>> THEN matching
    ELSE UnionTags(index, Tail(tags),
                   IF Head(tags) \in DOMAIN index
                   THEN matching \cup index[Head(tags)] ELSE matching)

GetToolsByTagsUnionOnly(index, tools, tags, match_all) ==
    IF tags = <<>> THEN {}
    ELSE {name \in UnionTags(index, tags, {}) : Has(tools, name)}
get_tools_by_tags(index, tools, tags, match_all) ==
    IF tags = <<>> THEN {}
    ELSE LET matching_tool_names ==
                 IF match_all THEN IntersectTags(index, tags, None)[1]
                 ELSE UnionTags(index, tags, {})
         IN {name \in matching_tool_names : Has(tools, name)}

get_tool_metadata(metadata, tool_name) ==
    IF Has(metadata, tool_name) THEN Some(Get(metadata, tool_name)) ELSE None

get_tools_by_server(metadata, server_prefix) ==
    LET keep(m) == m.server_prefix = server_prefix
    IN Names(SelectSeq(metadata, keep))

get_tag_statistics(index) == [g \in DOMAIN index |-> Cardinality(index[g])]

get_popular_tools(metadata, limit) == Names(Slice(SortByUsage(metadata), limit))

RecordToolUsageCreatesEntry(metadata, tool_name, now) ==
    IF Has(metadata, tool_name)
    THEN [i \in 1..Len(metadata) |->
            IF metadata[i].name = tool_name
            THEN [metadata[i] EXCEPT !.usage_count = @ + 1, !.last_used = Some(now)]
            ELSE metadata[i]]
    ELSE Append(metadata, [ToolMetadata(Tool(tool_name, {}, ""))
                             EXCEPT !.usage_count = 1, !.last_used = Some(now)])
record_tool_usage(metadata, tool_name, now) ==
    IF Has(metadata, tool_name)
    THEN [i \in 1..Len(metadata) |->
            IF metadata[i].name = tool_name
            THEN [metadata[i] EXCEPT !.usage_count = @ + 1, !.last_used = Some(now)]
            ELSE metadata[i]]
    ELSE metadata

(***************************************************************************)
(* State.                                                                  *)
(***************************************************************************)
VARIABLES
    registry,          \* self.registry: the FastMCP app, [tools, prompts]
    all_tags,          \* self.all_tags
    is_initialized,    \* self._is_initialized
    server_statuses,   \* self._server_statuses: prefix -> status string
    tool_metadata,     \* self._tool_metadata: dict name -> ToolMetadata
    tag_index,         \* self._tag_index: tag -> set of tool names
    import_count,      \* import_server calls made on this object, per prefix
    instance,          \* identity of the registry object the fields above belong to
    mcp_registry,      \* server.mcp_registry: 0 is None, else the object's identity
    clock,             \* datetime.now()
    pc,                \* where each caller stands
    call,              \* the call each caller is making or made last
    log,               \* what the call in progress (or just ended) has logged
    last,              \* the latest call: running, or returned with its result
    init_ended,        \* an initialize run on this object has returned or raised
    singleton,         \* the first initialized registry get_global_registry returned
    \* mcp_client/client.py: one MCPClient
    sessions,          \* self._sessions: name -> Client, in insertion order
    clients,           \* the Client objects made so far, by identity: transport, state
    requests,          \* the requests sent to sessions so far
    client_pc,         \* where each caller of the MCPClient stands
    client_call,       \* the MCPClient call each caller is making or made last
    client_last,       \* the latest MCPClient call that has ended
    scope,             \* the `async with` block around the MCPClient
    \* agent/mcp_tool_wrapper.py: one MCPToolWrapper (its MCPClient is the one above)
    wrapper,           \* self.mcp_client (0 is None), self.connected
    loops,             \* the event loops the adapted tools made, by identity
    wrapper_pc,        \* where the wrapper's caller stands
    wrapper_call,      \* the wrapper call in progress or made last
    wrapper_last,      \* the latest wrapper call that has ended
    \* agent/gemini_client.py: one GeminiClient
    conversation,      \* self.conversation
    generated,         \* generate calls since construction or the last clear
    \* global_server/server.py: the process started by main()
    env,               \* os.environ
    main_pc,           \* where main() stands
    exit_status,       \* the exit status of the process, once it has ended
    \* servers/: the tool servers and the prompt server
    tool_call,         \* the latest tool or prompt call: operation, arguments, upstream
    tool_result,       \* what that call returned or raised
    versioned_prompt   \* PR_REVIEW_PROMPT: the VersionedPrompt object

registryVars == <<registry, all_tags, is_initialized, server_statuses,
                  tool_metadata, tag_index, import_count, init_ended>>
clientVars == <<sessions, clients, requests, client_pc, client_call, client_last, scope>>
wrapperVars == <<wrapper, loops, wrapper_pc, wrapper_call, wrapper_last>>
geminiVars == <<conversation, generated>>
mainVars == <<env, main_pc, exit_status>>
serverVars == <<tool_call, tool_result, versioned_prompt>>
globalVars == <<instance, mcp_registry, singleton>>
callVars == <<pc, call, log, last>>
vars == <<registryVars, globalVars, clock, callVars, clientVars, wrapperVars,
          geminiVars, mainVars, serverVars>>

otherVars == <<clientVars, wrapperVars, geminiVars, mainVars, serverVars>>

\* the caller of the sequential specifications, and the asyncio tasks of one
\* event loop in the specifications of interleaved calls
Tasks == {"main"}
AllTasks == {"main", "second"}

EmptyDict == [g \in {} |-> {}]
NoImports == [p \in Range(Prefixes) |-> 0]

NoArgs == [tool_name |-> "", tag |-> "", query |-> None, tags |-> None,
           server_prefix |-> None, limit |-> None, match_all |-> TRUE]
NoRet == [list |-> <<>>, names |-> {}, meta |-> None, stats |-> EmptyDict,
          health |-> None, registry |-> 0]
NewCall(op, args) == [op |-> op, args |-> args, init_before |-> is_initialized]
\* a call that has returned (or raised), and a call still running
Completed(c, ret, raised, init_after) ==
    [op |-> c.op, args |-> c.args, init_before |-> c.init_before, returned |-> TRUE,
     ret |-> ret, raised |-> raised, init_after |-> init_after]
Running(c) ==
    [op |-> c.op, args |-> c.args, init_before |-> c.init_before, returned |-> FALSE,
     ret |-> NoRet, raised |-> FALSE, init_after |-> FALSE]

(***************************************************************************)
(* Inputs.                                                                 *)
(***************************************************************************)
ImportErrors == {"No module named 'opik'"}
ToolNameInputs ==
    {"asana_find_task_tool", "github_list_pull_requests_tool", "search_tools", "nosuch_tool"}
SearchInputs ==
    {NoArgs,
     [NoArgs EXCEPT !.limit = Some(0)],
     [NoArgs EXCEPT !.limit = Some(1)],
     [NoArgs EXCEPT !.query = Some("GID")],
     [NoArgs EXCEPT !.query = Some("")],
     [NoArgs EXCEPT !.tags = Some(<<"task", "list">>)],
     [NoArgs EXCEPT !.tags = Some(<<>>), !.server_prefix = Some("slack"), !.limit = Some(1)],
     [NoArgs EXCEPT !.query = Some("List"), !.tags = Some(<<"pr-reviewer">>),
                    !.server_prefix = Some("github"), !.limit = Some(5)],
     [NoArgs EXCEPT !.server_prefix = Some("unknown")]}

(***************************************************************************)
(* The other objects as their constructors leave them.                     *)
(***************************************************************************)
\* a call on the MCPClient: what it was given and what it found
ClientCall(op, name, base_url) ==
    [op |-> op, name |-> name, base_url |-> base_url,
     before |-> <<>>,              \* cleanup: the session map when it began
     client |-> 0,                 \* connect, a request: the Client it works on
     closing |-> <<>>,             \* cleanup: the sessions it has tried to close
     exc |-> FALSE]                \* __aexit__: the block has raised
NoClientCall ==
    [op |-> "none", name |-> "", base_url |-> None, before |-> <<>>, client |-> 0,
     closing |-> <<>>, exc |-> FALSE]
\* how a call on the MCPClient ended
ClientEnded(c, raised, error) == [call |-> c, raised |-> raised, error |-> error]

\* MCPClient.__init__
ClientInit ==
    /\ sessions = <<>>
    /\ clients = <<>>
    /\ requests = <<>>
    /\ client_pc = [t \in AllTasks |-> "idle"]
    /\ client_call = [t \in AllTasks |-> NoClientCall]
    /\ client_last = ClientEnded(NoClientCall, FALSE, "")
    /\ scope = "outside"

NoWrapperCall ==
    [op |-> "none", tool |-> "", loop |-> 0, connected_before |-> FALSE, client |-> 0]
\* how a call on the MCPToolWrapper ended: error is the message of the exception
\* that ended or was caught in it ("" for none), result what it returned
WrapperEnded(c, raised, error, result) ==
    [call |-> c, raised |-> raised, error |-> error, result |-> result]

\* MCPToolWrapper.__init__
WrapperInit ==
    /\ wrapper = [mcp_client |-> 0, connected |-> FALSE, adapted |-> FALSE]
    /\ loops = <<>>
    /\ wrapper_pc = "idle"
    /\ wrapper_call = NoWrapperCall
    /\ wrapper_last = WrapperEnded(NoWrapperCall, FALSE, "", "")

\* PR_REVIEW_PROMPT = VersionedPrompt(name, template, version); the template
\* is cut down to its last two lines, which hold the two placeholders
PR_REVIEW_PROMPT ==
    [template |-> "- PR ID: {pr_id} - PR URL: {pr_url}", version |-> "1.0.0"]
NoToolCall ==
    [op |-> "none", id |-> "", text |-> None, limit |-> 0, upstream |-> "ok",
     statuses |-> <<>>]
\* a call returns a value (a dict), or raises an exception with a message
Returned(value) == [raised |-> FALSE, exc |-> "", value |-> value]
Raised(message) == [raised |-> TRUE, exc |-> message, value |-> EmptyDict]
\* the servers as their modules leave them when imported
ServersInit ==
    /\ tool_call = NoToolCall
    /\ tool_result = Returned(EmptyDict)
    /\ versioned_prompt = PR_REVIEW_PROMPT

\* GeminiClient.__init__
GeminiInit ==
    /\ conversation = <<>>
    /\ generated = [calls |-> 0, prompted |-> 0, returned |-> 0]

\* the variables validate_environment requires, per server
required_vars ==
    << [name |-> "asana", vars |-> <<"ASANA_PERSONAL_ACCESS_TOKEN", "ASANA_WORKSPACE_ID">>],
       [name |-> "slack", vars |-> <<"SLACK_BOT_TOKEN">>],
       [name |-> "github", vars |-> <<"GITHUB_ACCESS_TOKEN", "GITHUB_OWNER">>],
       [name |-> "agent_scope", vars |-> <<"GITHUB_OWNER">>] >>
EnvVars == UNION {Range(required_vars[i].vars) : i \in 1..Len(required_vars)}
FullEnv == [v \in EnvVars |-> Some("x")]

(***************************************************************************)
(* Init: McpServersRegistry.__init__ has run once; server.mcp_registry is  *)
(* None.                                                                   *)
(***************************************************************************)
Init ==
    /\ registry = EmptyApp
    /\ all_tags = {}
    /\ is_initialized = FALSE
    /\ server_statuses = EmptyDict
    /\ tool_metadata = <<>>
    /\ tag_index = EmptyDict
    /\ import_count = NoImports
    /\ instance = 1
    /\ mcp_registry = 0
    /\ clock = 0
    /\ pc = [t \in AllTasks |-> "idle"]
    /\ call = [t \in AllTasks |-> NewCall("none", NoArgs)]
    /\ log = <<>>
    /\ last = Running([op |-> "none", args |-> NoArgs, init_before |-> FALSE])
    /\ init_ended = FALSE
    /\ singleton = 0
    /\ ClientInit
    /\ WrapperInit
    /\ GeminiInit
    /\ ServersInit
    /\ env = FullEnv
    /\ main_pc = "none"
    /\ exit_status = None

(***************************************************************************)
(* McpServersRegistry.initialize, one step per awaited call.               *)
(***************************************************************************)
Put(d, k, v) == [x \in (DOMAIN d) \cup {k} |-> IF x = k THEN v ELSE d[x]]

ImportedStatus == "imported"
ErrorStatusNoPrefix(e) == e
ErrorStatus(e) == "error: " \o e

\* bound: a sub-server is imported into one object at most MaxImports times
CanImport == \A p \in Range(Prefixes) : import_count[p] < MaxImports

GlobalOps == {"initialize_global_server", "get_global_registry", "server.health_check"}
\* where the caller of initialize goes on when initialize has returned
AfterInitialize(op) ==
    CASE op = "initialize" -> "idle"
      [] op \in {"get_tools_by_tag", "search_tools", "get_tools_by_tags",
               "get_tool_metadata"} -> "body"
      [] op \in GlobalOps \/ op = "main" -> "register_api_tools"

InitializeAlways(t) ==
    /\ pc[t] = "idle"
    /\ CanImport
    /\ call' = [call EXCEPT ![t] = NewCall("initialize", NoArgs)]
    /\ pc' = [pc EXCEPT ![t] = "import_asana"]
    /\ log' = << <<"initialize", "start">> >>
    /\ last' = Running(NewCall("initialize", NoArgs))
    /\ UNCHANGED <<registryVars, instance, mcp_registry, singleton, otherVars, clock>>
Initialize(t) ==
    /\ pc[t] = "idle"
    /\ is_initialized \/ CanImport
    /\ LET c == NewCall("initialize", NoArgs)
       IN /\ call' = [call EXCEPT ![t] = c]
          /\ IF is_initialized
             THEN /\ log' = << <<"initialize", "skipping">> >>
                  /\ last' = Completed(c, NoRet, FALSE, TRUE)
                  /\ UNCHANGED pc
             ELSE /\ log' = << <<"initialize", "start">> >>
                  /\ pc' = [pc EXCEPT ![t] = "import_asana"]
                  /\ last' = Running(c)
    /\ UNCHANGED <<registryVars, instance, mcp_registry, singleton, otherVars, clock>>

\* _import_<p>_server inside initialize's try block
ImportStepSwallowsError(t, p, here, next) ==
    /\ pc[t] = here
    /\ \/ /\ registry' = ImportInto(registry, p)
          /\ server_statuses' = Put(server_statuses, p, ImportedStatus)
          /\ import_count' = [import_count EXCEPT ![p] = @ + 1]
          /\ log' = Append(log, <<p, "imported">>)
       \/ \E e \in ImportErrors :
          /\ server_statuses' = Put(server_statuses, p, ErrorStatus(e))
          /\ log' = Append(log, <<p, "error">>)
          /\ UNCHANGED <<registry, import_count>>
    /\ pc' = [pc EXCEPT ![t] = next]
    /\ UNCHANGED <<all_tags, is_initialized, init_ended, tool_metadata, tag_index, instance,
                   mcp_registry, singleton, otherVars, clock, call, last>>
\* how the call that ran initialize ends when an import has raised e: the
\* exception leaves every caller but server.health_check, which returns it
Failed(c, e) ==
    IF c.op = "server.health_check"
    THEN Completed(c, [NoRet EXCEPT !.health =
                          Some([global_server_status |-> "error", error |-> e,
                                initialized |-> FALSE])],
                   FALSE, is_initialized)
    ELSE Completed(c, NoRet, TRUE, is_initialized)

ImportStep(t, p, here, next) ==
    /\ pc[t] = here
    /\ \/ /\ registry' = ImportInto(registry, p)
          /\ server_statuses' = Put(server_statuses, p, ImportedStatus)
          /\ import_count' = [import_count EXCEPT ![p] = @ + 1]
          /\ log' = Append(log, <<p, "imported">>)
          /\ pc' = [pc EXCEPT ![t] = next]
          /\ UNCHANGED <<last, init_ended>>
       \/ \E e \in ImportErrors :
          /\ server_statuses' = Put(server_statuses, p, ErrorStatus(e))
          /\ log' = log \o << <<p, "error">>, <<"initialize", "failed">> >>
          /\ pc' = [pc EXCEPT ![t] = "idle"]
          /\ last' = Failed(call[t], e)
          /\ init_ended' = TRUE
          /\ UNCHANGED <<registry, import_count>>
    /\ UNCHANGED <<all_tags, is_initialized, tool_metadata, tag_index, instance,
                   mcp_registry, singleton, otherVars, clock, call>>

ImportAsanaServer(t) == ImportStep(t, "asana", "import_asana", "import_slack")
ImportSlackServer(t) == ImportStep(t, "slack", "import_slack", "import_scope")
ImportAgentScopeServer(t) == ImportStep(t, "scope", "import_scope", "import_github")
ImportGithubServer(t) == ImportStep(t, "github", "import_github", "collect_all_tags")

CollectAllTags(t) ==
    /\ pc[t] = "collect_all_tags"
    /\ all_tags' = collect_all_tags(all_tags, registry.tools)
    /\ log' = Append(log, <<"collect_all_tags", "done">>)
    /\ pc' = [pc EXCEPT ![t] = "build_tool_metadata"]
    /\ UNCHANGED <<registry, is_initialized, init_ended, server_statuses, tool_metadata,
                   tag_index, import_count, instance, mcp_registry, singleton,
                   otherVars, clock, call, last>>

BuildToolMetadata(t) ==
    /\ pc[t] = "build_tool_metadata"
    /\ tool_metadata' = build_tool_metadata(tool_metadata, registry.tools)
    /\ log' = Append(log, <<"build_tool_metadata", "done">>)
    /\ pc' = [pc EXCEPT ![t] = "build_tag_index"]
    /\ UNCHANGED <<registry, all_tags, is_initialized, init_ended, server_statuses,
                   tag_index, import_count, instance, mcp_registry, singleton,
                   otherVars, clock, call, last>>

\* _build_tag_index, then self._is_initialized = True and initialize returns
BuildTagIndex(t) ==
    /\ pc[t] = "build_tag_index"
    /\ tag_index' = build_tag_index(tag_index, tool_metadata)
    /\ is_initialized' = TRUE
    /\ init_ended' = TRUE
    /\ log' = log \o << <<"build_tag_index", "done">>, <<"initialize", "complete">> >>
    /\ pc' = [pc EXCEPT ![t] = AfterInitialize(call[t].op)]
    /\ last' = IF call[t].op = "initialize"
               THEN Completed(call[t], NoRet, FALSE, TRUE)
               ELSE last
    /\ UNCHANGED <<registry, all_tags, server_statuses, tool_metadata,
                   import_count, instance, mcp_registry, singleton, otherVars, clock, call>>

(***************************************************************************)
(* The asynchronous queries: `if not self._is_initialized: await           *)
(* self.initialize()`, then the body.                                      *)
(***************************************************************************)
QueryResult(c) ==
    CASE c.op = "search_tools" ->
            [NoRet EXCEPT !.list = search_tools(tool_metadata, c.args)]
      [] c.op = "get_tools_by_tag" ->
            [NoRet EXCEPT !.names = get_tools_by_tag(tag_index, registry.tools, c.args.tag)]
      [] c.op = "get_tools_by_tags" ->
            [NoRet EXCEPT !.names = get_tools_by_tags(tag_index, registry.tools,
                                                      c.args.tags[1], c.args.match_all)]
      [] c.op = "get_tool_metadata" ->
            [NoRet EXCEPT !.meta = get_tool_metadata(tool_metadata, c.args.tool_name)]

AsyncQuery(t, op, args) ==
    /\ pc[t] = "idle"
    /\ is_initialized \/ CanImport
    /\ LET c == NewCall(op, args)
       IN /\ call' = [call EXCEPT ![t] = c]
          /\ IF is_initialized
             THEN /\ log' = <<>>
                  /\ last' = Completed(c, QueryResult(c), FALSE, TRUE)
                  /\ UNCHANGED pc
             ELSE /\ log' = << <<"initialize", "start">> >>
                  /\ pc' = [pc EXCEPT ![t] = "import_asana"]
                  /\ last' = Running(c)
    /\ UNCHANGED <<registryVars, instance, mcp_registry, singleton, otherVars, clock>>

\* the body of a query whose lazy initialize has returned
ResumeQuery(t) ==
    /\ pc[t] = "body"
    /\ last' = Completed(call[t], QueryResult(call[t]), FALSE, is_initialized)
    /\ pc' = [pc EXCEPT ![t] = "idle"]
    /\ UNCHANGED <<registryVars, instance, mcp_registry, singleton, otherVars, clock,
                   call, log>>

GetToolsByTag(t, tag) ==
    AsyncQuery(t, "get_tools_by_tag", [NoArgs EXCEPT !.tag = tag])

SearchToolsCountsHits(t, a) ==
    /\ pc[t] = "idle"
    /\ is_initialized
    /\ LET c == NewCall("search_tools", a)
           hits == Range(search_tools(tool_metadata, a))
       IN /\ call' = [call EXCEPT ![t] = c]
          /\ last' = Completed(c, QueryResult(c), FALSE, TRUE)
          /\ tool_metadata' =
                [i \in 1..Len(tool_metadata) |->
                    IF tool_metadata[i].name \in hits /\ tool_metadata[i].usage_count < MaxClock
                    THEN [tool_metadata[i] EXCEPT !.usage_count = @ + 1]
                    ELSE tool_metadata[i]]
    /\ log' = <<>>
    /\ UNCHANGED <<registry, all_tags, is_initialized, init_ended, server_statuses,
                   tag_index, import_count, instance, mcp_registry, singleton,
                   otherVars, clock, pc>>
SearchTools(t, a) == AsyncQuery(t, "search_tools", a)

GetToolsByTags(t, tags, match_all) ==
    AsyncQuery(t, "get_tools_by_tags",
               [NoArgs EXCEPT !.tags = Some(tags), !.match_all = match_all])

GetToolMetadata(t, tool_name) ==
    AsyncQuery(t, "get_tool_metadata", [NoArgs EXCEPT !.tool_name = tool_name])

(***************************************************************************)
(* The synchronous operations: no initialize, the body alone.              *)
(***************************************************************************)
SyncCall(t, op, args, ret) ==
    /\ pc[t] = "idle"
    /\ call' = [call EXCEPT ![t] = NewCall(op, args)]
    /\ last' = Completed(NewCall(op, args), ret, FALSE, is_initialized)
    /\ log' = <<>>
    /\ UNCHANGED <<instance, mcp_registry, singleton, otherVars, pc>>

GetToolsByServer(t, server_prefix) ==
    /\ SyncCall(t, "get_tools_by_server", [NoArgs EXCEPT !.server_prefix = Some(server_prefix)],
                [NoRet EXCEPT !.list = get_tools_by_server(tool_metadata, server_prefix)])
    /\ UNCHANGED <<registryVars, clock>>

GetTagStatistics(t) ==
    /\ SyncCall(t, "get_tag_statistics", NoArgs,
                [NoRet EXCEPT !.stats = get_tag_statistics(tag_index)])
    /\ UNCHANGED <<registryVars, clock>>

GetPopularTools(t, limit) ==
    /\ SyncCall(t, "get_popular_tools", [NoArgs EXCEPT !.limit = Some(limit)],
                [NoRet EXCEPT !.list = get_popular_tools(tool_metadata, limit)])
    /\ UNCHANGED <<registryVars, clock>>

\* bound: the clock stops at MaxClock
RecordToolUsage(t, tool_name) ==
    /\ Has(tool_metadata, tool_name) => clock < MaxClock
    /\ SyncCall(t, "record_tool_usage", [NoArgs EXCEPT !.tool_name = tool_name], NoRet)
    /\ clock' = IF Has(tool_metadata, tool_name) THEN clock + 1 ELSE clock
    /\ tool_metadata' = record_tool_usage(tool_metadata, tool_name, clock + 1)
    /\ UNCHANGED <<registry, all_tags, is_initialized, init_ended, server_statuses,
                   tag_index, import_count>>

health_check ==
    [status |-> IF is_initialized THEN "healthy" ELSE "not_initialized",
     initialized |-> is_initialized,
     server_count |-> Cardinality({p \in DOMAIN server_statuses :
                                     server_statuses[p] = "imported"}),
     error_count |-> Cardinality({p \in DOMAIN server_statuses :
                                    StartsWith(server_statuses[p], "error")}),
     total_tags |-> Cardinality(all_tags),
     server_statuses |-> server_statuses,
     tool_names |-> IF is_initialized THEN Some(Names(registry.tools)) ELSE None]

HealthCheck(t) ==
    /\ SyncCall(t, "health_check", NoArgs, [NoRet EXCEPT !.health = Some(health_check)])
    /\ UNCHANGED <<registryVars, clock>>

(***************************************************************************)
(* global_server/server.py: the module global and its accessors.           *)
(***************************************************************************)
\* mcp_registry = McpServersRegistry(); await mcp_registry.initialize() begins
\* bound: at most MaxInstances registry objects are constructed
ConstructAndInitialize(t, op) ==
    /\ instance < MaxInstances
    /\ call' = [call EXCEPT ![t] = NewCall(op, NoArgs)]
    /\ registry' = EmptyApp
    /\ all_tags' = {}
    /\ is_initialized' = FALSE
    /\ server_statuses' = EmptyDict
    /\ tool_metadata' = <<>>
    /\ tag_index' = EmptyDict
    /\ import_count' = NoImports
    /\ instance' = instance + 1
    /\ mcp_registry' = instance + 1
    /\ pc' = [pc EXCEPT ![t] = "import_asana"]
    /\ log' = << <<"initialize", "start">> >>
    /\ last' = Running(NewCall(op, NoArgs))
    /\ init_ended' = FALSE
    /\ UNCHANGED <<clock, singleton, otherVars>>

\* the registry now returned, when it is the first initialized one that
\* get_global_registry returns
FirstReturned(op) ==
    IF op \in {"get_global_registry", "server.health_check"} /\ is_initialized
          /\ singleton = 0
    THEN mcp_registry ELSE singleton

\* what a call through get_global_registry returns once the registry is there
GlobalResult(op, h) ==
    CASE op = "server.health_check" -> [NoRet EXCEPT !.health = Some(h @@ ("global_server_status" :> "operational"))]
      [] op = "main" -> NoRet
      [] OTHER -> [NoRet EXCEPT !.registry = mcp_registry]

InitializeGlobalServer(t) ==
    /\ pc[t] = "idle"
    /\ ConstructAndInitialize(t, "initialize_global_server")

\* get_global_registry, called as op or on behalf of op
GlobalAccess(t, op) ==
    /\ pc[t] = "idle"
    /\ IF mcp_registry = 0 \/ ~is_initialized
       THEN ConstructAndInitialize(t, op)
       ELSE /\ call' = [call EXCEPT ![t] = NewCall(op, NoArgs)]
            /\ last' = Completed(NewCall(op, NoArgs), GlobalResult(op, health_check),
                                 FALSE, TRUE)
            /\ log' = <<>>
            /\ singleton' = FirstReturned(op)
            /\ UNCHANGED <<registryVars, instance, mcp_registry, otherVars, clock, pc>>

GetGlobalRegistry(t) == GlobalAccess(t, "get_global_registry")

\* server.health_check: registry = await get_global_registry(), then
\* await registry.health_check()
ServerHealthCheck(t) == GlobalAccess(t, "server.health_check")

\* await register_api_tools(app, mcp_registry); return mcp_registry
RegisterApiTools(t) ==
    /\ pc[t] = "register_api_tools"
    /\ registry' = register_api_tools(registry)
    /\ pc' = [pc EXCEPT ![t] = "idle"]
    /\ singleton' = FirstReturned(call[t].op)
    /\ UNCHANGED <<all_tags, is_initialized, init_ended, server_statuses, tool_metadata,
                   tag_index, import_count, instance, mcp_registry, otherVars, clock,
                   call, log>>
    /\ last' = Completed(call[t], GlobalResult(call[t].op, health_check'), FALSE,
                         is_initialized)

(***************************************************************************)
(* Specification: calls are made one at a time.                            *)
(***************************************************************************)
Next ==
    \E t \in Tasks :
        \/ Initialize(t)
        \/ ImportAsanaServer(t)
        \/ ImportSlackServer(t)
        \/ ImportAgentScopeServer(t)
        \/ ImportGithubServer(t)
        \/ CollectAllTags(t)
        \/ BuildToolMetadata(t)
        \/ BuildTagIndex(t)
        \/ ResumeQuery(t)
        \/ \E tag \in {"list", "registry", "nosuch"} : GetToolsByTag(t, tag)
        \/ \E a \in SearchInputs : SearchTools(t, a)
        \/ \E tags \in {<<>>, <<"task", "list">>, <<"search">>, <<"list", "nosuch">>, <<"nosuch", "list">>}, match_all \in BOOLEAN : GetToolsByTags(t, tags, match_all)
        \/ \E n \in ToolNameInputs : GetToolMetadata(t, n)
        \/ \E p \in {"asana", "scope", "unknown"} : GetToolsByServer(t, p)
        \/ GetTagStatistics(t)
        \/ \E n \in ToolNameInputs : RecordToolUsage(t, n)
        \/ \E k \in {-1, 0, 1, 10} : GetPopularTools(t, k)
        \/ HealthCheck(t)

Spec == Init /\ [][Next]_vars

(***************************************************************************)
(* Specification of the global server module: no registry exists until     *)
(* initialize_global_server or get_global_registry builds one; the calls   *)
(* are made one at a time.                                                 *)
(***************************************************************************)
GlobalInit ==
    /\ registry = EmptyApp
    /\ all_tags = {}
    /\ is_initialized = FALSE
    /\ server_statuses = EmptyDict
    /\ tool_metadata = <<>>
    /\ tag_index = EmptyDict
    /\ import_count = NoImports
    /\ init_ended = FALSE
    /\ instance = 0
    /\ mcp_registry = 0
    /\ singleton = 0
    /\ clock = 0
    /\ pc = [t \in AllTasks |-> "idle"]
    /\ call = [t \in AllTasks |-> NewCall("none", NoArgs)]
    /\ log = <<>>
    /\ last = Running([op |-> "none", args |-> NoArgs, init_before |-> FALSE])
    /\ ClientInit
    /\ WrapperInit
    /\ GeminiInit
    /\ ServersInit
    /\ env = FullEnv
    /\ main_pc = "none"
    /\ exit_status = None

GlobalNext ==
    \E t \in Tasks :
        \/ InitializeGlobalServer(t)
        \/ GetGlobalRegistry(t)
        \/ ServerHealthCheck(t)
        \/ ImportAsanaServer(t)
        \/ ImportSlackServer(t)
        \/ ImportAgentScopeServer(t)
        \/ ImportGithubServer(t)
        \/ CollectAllTags(t)
        \/ BuildToolMetadata(t)
        \/ BuildTagIndex(t)
        \/ RegisterApiTools(t)

GlobalSpec == GlobalInit /\ [][GlobalNext]_vars

(***************************************************************************)
(* mcp_client/client.py: MCPClient.  A Client object is known by its place *)
(* in clients; every await is a step of its own.                           *)
(***************************************************************************)
\* connect(name, command, args, base_url): the name and the base_url
ConnectInputs ==
    {<<"global", None>>, <<"global", Some("")>>, <<"asana", Some("http://localhost:8000/mcp")>>}
RequestOps == {"call_tool", "list_tools", "list_prompts", "get_prompt"}
ConnectErrors == {"Client failed to connect"}
RequestErrors == {"Connection closed"}

\* self._sessions.get(name): the Client's identity, 0 for None
SessionGet(name) == IF Has(sessions, name) THEN Get(sessions, name).client ELSE 0
\* the Clients a session map holds, in the map's order
SessionClients(map) == [i \in 1..Len(map) |-> map[i].client]
NotConnected(server_name) == "Server " \o server_name \o " not connected"
KeyErrorText(server_name) == "'" \o server_name \o "'"

\* what no MCPClient method touches
notClient == <<registryVars, globalVars, clock, callVars, wrapperVars, geminiVars, serverVars,
               mainVars>>

ClientReturn(t, c, raised, error) ==
    /\ client_pc' = [client_pc EXCEPT ![t] = "idle"]
    /\ client_last' = ClientEnded(c, raised, error)

\* bound: at most MaxClients Client objects are made
ConnectAlways(t, name, base_url) ==
    /\ client_pc[t] = "idle"
    /\ UNCHANGED notClient
    /\ Len(clients) < MaxClients
    /\ clients' = Append(clients, [transport |-> IF TruthyStr(base_url) THEN "http"
                                                 ELSE "stdio",
                                   state |-> "entering"])
    /\ client_call' = [client_call EXCEPT ![t] =
                          [ClientCall("connect", name, base_url)
                             EXCEPT !.client = Len(clients) + 1]]
    /\ client_pc' = [client_pc EXCEPT ![t] = "connect"]
    /\ UNCHANGED <<sessions, requests, client_last, scope>>
\* connect up to `await client.__aenter__()`
Connect(t, name, base_url) ==
    /\ client_pc[t] = "idle"
    /\ UNCHANGED notClient
    /\ LET c == ClientCall("connect", name, base_url)
       IN IF Has(sessions, name)
          THEN /\ client_call' = [client_call EXCEPT ![t] = c]
               /\ ClientReturn(t, c, FALSE, "")
               /\ UNCHANGED <<sessions, clients, requests, scope>>
          ELSE /\ Len(clients) < MaxClients
               /\ clients' = Append(clients,
                                    [transport |-> IF TruthyStr(base_url) THEN "http"
                                                   ELSE "stdio",
                                     state |-> "entering"])
               /\ client_call' = [client_call EXCEPT ![t] =
                                     [c EXCEPT !.client = Len(clients) + 1]]
               /\ client_pc' = [client_pc EXCEPT ![t] = "connect"]
               /\ UNCHANGED <<sessions, requests, client_last, scope>>

\* `await client.__aenter__()` returns or raises; self._sessions[name] = client
EnterSession(t) ==
    /\ client_pc[t] = "connect"
    /\ UNCHANGED notClient
    /\ LET c == client_call[t]
       IN \/ /\ clients' = [clients EXCEPT ![c.client].state = "open"]
             /\ sessions' = DictSet(sessions, [name |-> c.name, client |-> c.client])
             /\ ClientReturn(t, c, FALSE, "")
          \/ \E e \in ConnectErrors :
             /\ clients' = [clients EXCEPT ![c.client].state = "failed"]
             /\ ClientReturn(t, c, TRUE, e)
             /\ UNCHANGED sessions
    /\ UNCHANGED <<requests, client_call, scope>>

\* call_tool, list_tools, list_prompts, get_prompt up to the await
\* bound: at most MaxRequests requests are sent
RequestKeyError(t, op, server_name) ==
    /\ client_pc[t] = "idle"
    /\ UNCHANGED notClient
    /\ LET c == ClientCall(op, server_name, None)
       IN IF ~Has(sessions, server_name)
          THEN /\ client_call' = [client_call EXCEPT ![t] = c]
               /\ ClientReturn(t, c, TRUE, KeyErrorText(server_name))
               /\ UNCHANGED requests
          ELSE /\ Len(requests) < MaxRequests
               /\ requests' = Append(requests, [client |-> SessionGet(server_name),
                                                method |-> op])
               /\ client_call' = [client_call EXCEPT ![t] =
                                     [c EXCEPT !.client = SessionGet(server_name)]]
               /\ client_pc' = [client_pc EXCEPT ![t] = "request"]
               /\ UNCHANGED client_last
    /\ UNCHANGED <<sessions, clients, scope>>
Request(t, op, server_name) ==
    /\ client_pc[t] = "idle"
    /\ UNCHANGED notClient
    /\ LET c == ClientCall(op, server_name, None)
           session == SessionGet(server_name)
       IN IF session = 0
          THEN /\ client_call' = [client_call EXCEPT ![t] = c]
               /\ ClientReturn(t, c, TRUE, NotConnected(server_name))
               /\ UNCHANGED requests
          ELSE /\ Len(requests) < MaxRequests
               /\ requests' = Append(requests, [client |-> session, method |-> op])
               /\ client_call' = [client_call EXCEPT ![t] = [c EXCEPT !.client = session]]
               /\ client_pc' = [client_pc EXCEPT ![t] = "request"]
               /\ UNCHANGED client_last
    /\ UNCHANGED <<sessions, clients, scope>>

\* the awaited session call returns or raises
RequestDone(t) ==
    /\ client_pc[t] = "request"
    /\ UNCHANGED notClient
    /\ \/ ClientReturn(t, client_call[t], FALSE, "")
       \/ \E e \in RequestErrors : ClientReturn(t, client_call[t], TRUE, e)
    /\ UNCHANGED <<sessions, clients, requests, client_call, scope>>

\* cleanup (called as op, "cleanup" or "__aexit__") up to its first await
BeginCleanup(t, op, exc) ==
    /\ client_pc[t] = "idle"
    /\ UNCHANGED notClient
    /\ LET c == [ClientCall(op, "", None) EXCEPT !.exc = exc, !.before = sessions]
       IN /\ client_call' = [client_call EXCEPT ![t] = c]
          /\ IF sessions = <<>>
             THEN /\ ClientReturn(t, c, FALSE, "")
                  /\ scope' = IF op = "__aexit__" THEN "outside" ELSE scope
             ELSE /\ client_pc' = [client_pc EXCEPT ![t] = "cleanup"]
                  /\ UNCHANGED <<client_last, scope>>
    /\ UNCHANGED <<sessions, clients, requests>>


\* `await session.__aexit__(None, None, None)` for the next session of the
\* map returns or raises; after the last one, self._sessions.clear()
CloseSessionFailureEscapes(t) ==
    /\ client_pc[t] = "cleanup"
    /\ UNCHANGED notClient
    /\ LET c == client_call[t]
           session == sessions[Len(c.closing) + 1].client
           d == [c EXCEPT !.closing = Append(@, session)]
       IN \/ /\ clients' = [clients EXCEPT ![session].state = "closed"]
             /\ client_call' = [client_call EXCEPT ![t] = d]
             /\ IF Len(d.closing) = Len(sessions)
                THEN /\ sessions' = <<>>
                     /\ ClientReturn(t, d, FALSE, "")
                     /\ scope' = IF c.op = "__aexit__" THEN "outside" ELSE scope
                ELSE UNCHANGED <<sessions, client_pc, client_last, scope>>
          \/ \E e \in RequestErrors :
             /\ clients' = [clients EXCEPT ![session].state = "close_failed"]
             /\ client_call' = [client_call EXCEPT ![t] = d]
             /\ ClientReturn(t, d, TRUE, e)
             /\ scope' = IF c.op = "__aexit__" THEN "outside" ELSE scope
             /\ UNCHANGED sessions
    /\ UNCHANGED requests
CloseSession(t) ==
    /\ client_pc[t] = "cleanup"
    /\ UNCHANGED notClient
    /\ LET c == client_call[t]
           session == sessions[Len(c.closing) + 1].client
           d == [c EXCEPT !.closing = Append(@, session)]
       IN /\ \/ clients' = [clients EXCEPT ![session].state = "closed"]
             \/ \E e \in RequestErrors :
                   clients' = [clients EXCEPT ![session].state = "close_failed"]
          /\ client_call' = [client_call EXCEPT ![t] = d]
          /\ IF Len(d.closing) = Len(sessions)
             THEN /\ sessions' = <<>>
                  /\ ClientReturn(t, d, FALSE, "")
                  /\ scope' = IF c.op = "__aexit__" THEN "outside" ELSE scope
             ELSE UNCHANGED <<sessions, client_pc, client_last, scope>>
    /\ UNCHANGED requests

\* `async with client:` is entered: __aenter__ returns self
EnterScope(t) ==
    /\ client_pc[t] = "idle"
    /\ UNCHANGED notClient
    /\ scope = "outside"
    /\ scope' = "inside"
    /\ client_call' = [client_call EXCEPT ![t] = ClientCall("__aenter__", "", None)]
    /\ client_last' = ClientEnded(ClientCall("__aenter__", "", None), FALSE, "")
    /\ UNCHANGED <<sessions, clients, requests, client_pc>>

\* the block is left, by its end or by an exception: __aexit__ runs cleanup
ExitScopeNoCleanupOnError(t, exc) ==
    /\ scope = "inside"
    /\ IF exc
       THEN /\ client_pc[t] = "idle"
            /\ UNCHANGED notClient
            /\ scope' = "outside"
            /\ client_call' = [client_call EXCEPT ![t] =
                                  [ClientCall("__aexit__", "", None) EXCEPT !.exc = exc]]
            /\ client_last' = ClientEnded(client_call'[t], FALSE, "")
            /\ UNCHANGED <<sessions, clients, requests, client_pc>>
       ELSE BeginCleanup(t, "__aexit__", exc)
ExitScope(t, exc) ==
    /\ scope = "inside"
    /\ BeginCleanup(t, "__aexit__", exc)

ClientNext ==
    \E t \in Tasks :
        \/ \E a \in ConnectInputs : Connect(t, a[1], a[2])
        \/ EnterSession(t)
        \/ \E op \in RequestOps, name \in {"global", "asana"} : Request(t, op, name)
        \/ RequestDone(t)
        \/ BeginCleanup(t, "cleanup", FALSE)
        \/ CloseSession(t)
        \/ EnterScope(t)
        \/ \E exc \in BOOLEAN : ExitScope(t, exc)

ClientSpec == Init /\ [][ClientNext]_vars

(***************************************************************************)
(* agent/gemini_client.py: GeminiClient.  generate_content is a blocking   *)
(* call, so generate takes one step.                                       *)
(***************************************************************************)
ReplyTexts == {"I am Gemini."}
notGemini == <<registryVars, globalVars, clock, callVars, clientVars, wrapperVars, serverVars,
               mainVars>>

\* self.conversation.append({"role": role, "content": content})
Turn(role, content) == [role |-> role, content |-> content]
\* the roles of the contents sent to the model
GeminiRole(msg) == IF msg.role = "user" THEN "user" ELSE "model"

\* bound: at most MaxGenerate generate calls between two clears
GenerateAppendsEmptyPrompt(prompt) ==
    /\ generated.calls < MaxGenerate
    /\ LET asked == IF prompt # None
                    THEN Append(conversation, Turn("user", prompt[1]))
                    ELSE conversation
       IN \/ \E text \in ReplyTexts :
                /\ conversation' = Append(asked, Turn("model", text))
                /\ generated' = [calls |-> generated.calls + 1,
                                 prompted |-> generated.prompted
                                                + (IF TruthyStr(prompt) THEN 1 ELSE 0),
                                 returned |-> generated.returned + 1]
          \/ /\ conversation' = asked
             /\ generated' = [calls |-> generated.calls + 1,
                              prompted |-> generated.prompted
                                             + (IF TruthyStr(prompt) THEN 1 ELSE 0),
                              returned |-> generated.returned]
    /\ UNCHANGED notGemini
Generate(prompt) ==
    /\ generated.calls < MaxGenerate
    /\ LET asked == IF TruthyStr(prompt)
                    THEN Append(conversation, Turn("user", prompt[1]))
                    ELSE conversation
           prompted == generated.prompted + (IF TruthyStr(prompt) THEN 1 ELSE 0)
       IN \* generate_content returns: the reply is appended and returned
          \/ \E text \in ReplyTexts :
                /\ conversation' = Append(asked, Turn("model", text))
                /\ generated' = [calls |-> generated.calls + 1, prompted |-> prompted,
                                 returned |-> generated.returned + 1]
          \* generate_content raises: logged and raised again
          \/ /\ conversation' = asked
             /\ generated' = [calls |-> generated.calls + 1, prompted |-> prompted,
                              returned |-> generated.returned]
    /\ UNCHANGED notGemini

ClearConversation ==
    /\ conversation' = <<>>
    /\ generated' = [calls |-> 0, prompted |-> 0, returned |-> 0]
    /\ UNCHANGED notGemini

GeminiNext ==
    \/ \E prompt \in {None, Some(""), Some("Hi, who are you?")} : Generate(prompt)
    \/ ClearConversation

GeminiSpec == Init /\ [][GeminiNext]_vars

(***************************************************************************)
(* MCPToolWrapper (agent/mcp_tool_wrapper.py): one wrapper object, its     *)
(* MCPClient (the session map `sessions` and the Client objects            *)
(* `clients`), and the event loops the adapted tools make.  The wrapper's  *)
(* caller runs one call at a time; a call is cut at its awaits.            *)
(***************************************************************************)
WrapperServer == "global_registry"

WrapperCall(op, tool) ==
    [op |-> op, tool |-> tool, loop |-> 0, connected_before |-> wrapper.connected,
     client |-> 0]

\* what no MCPToolWrapper method touches
notWrapper == <<registryVars, globalVars, clock, callVars, geminiVars, mainVars, serverVars,
                requests, client_pc, client_call, client_last, scope>>

CloseLoopOnSuccessOnly(c, raised, ls) ==
    IF c.op = "tool_func" /\ ~raised
    THEN [ls EXCEPT ![c.loop].state = "closed"]
    ELSE ls
\* tool_func's `finally: loop.close()`; the other calls have no loop
CloseLoop(c, raised, ls) ==
    IF c.op = "tool_func"
    THEN [ls EXCEPT ![c.loop].state = "closed"]
    ELSE ls

\* the call returns `result`, or raises `error` when raised; ls is the list of
\* event loops as the call has left it so far
WrapperReturn(c, raised, error, result, ls) ==
    /\ wrapper_pc' = "idle"
    /\ wrapper_call' = c
    /\ wrapper_last' = WrapperEnded(c, raised, error, result)
    /\ loops' = CloseLoop(c, raised, ls)

\* what the except branches return
ErrorReturn(c, e) == IF c.op \in {"call_tool", "tool_func"} THEN "Error: " \o e ELSE "[]"
\* what the try branches return: str(result) of the tool call, or the tools
\* that list_tools gives
OkReturn(c) ==
    IF c.op \in {"call_tool", "tool_func"}
    THEN "[TextContent(type='text', text='ok')]"
    ELSE "['search_tools', 'get_registry_status']"

\* initialize after its `if self.connected` test, up to `await client.__aenter__()`
\* bound: at most MaxClients Client objects are made
BeginInitialize(c, ls) ==
    /\ Len(clients) < MaxClients
    /\ wrapper' = [wrapper EXCEPT !.mcp_client = @ + 1]
    /\ sessions' = <<>>
    /\ clients' = Append(clients, [transport |-> "stdio", state |-> "entering"])
    /\ wrapper_call' = [c EXCEPT !.client = Len(clients) + 1]
    /\ wrapper_pc' = "connect"
    /\ loops' = ls
    /\ UNCHANGED wrapper_last

\* self.mcp_client.call_tool / list_tools on the session map `map`, up to the await
SendRequest(c, map, ls) ==
    LET session == IF Has(map, WrapperServer) THEN Get(map, WrapperServer).client ELSE 0
    IN IF session = 0
       THEN WrapperReturn(c, FALSE, NotConnected(WrapperServer),
                          ErrorReturn(c, NotConnected(WrapperServer)), ls)
       ELSE /\ wrapper_call' = [c EXCEPT !.client = session]
            /\ wrapper_pc' = "request"
            /\ loops' = ls
            /\ UNCHANGED wrapper_last

\* call_tool, get_available_tools: the lazy initialize, then the request
LazyStart(c, ls) ==
    IF ~wrapper.connected
    THEN BeginInitialize(c, ls)
    ELSE /\ SendRequest(c, sessions, ls)
         /\ UNCHANGED <<wrapper, sessions, clients>>

WrapperInitialize ==
    /\ wrapper_pc = "idle"
    /\ UNCHANGED notWrapper
    /\ LET c == WrapperCall("initialize", "")
       IN IF wrapper.connected
          THEN /\ WrapperReturn(c, FALSE, "", "None", loops)
               /\ UNCHANGED <<wrapper, sessions, clients>>
          ELSE BeginInitialize(c, loops)

\* await wrapper.call_tool(tool_name)
WrapperCallTool(tool) ==
    /\ wrapper_pc = "idle"
    /\ UNCHANGED notWrapper
    /\ LazyStart(WrapperCall("call_tool", tool), loops)

\* await wrapper.get_available_tools(); create_langchain_tools begins with it
GetAvailableTools(op) ==
    /\ wrapper_pc = "idle"
    /\ UNCHANGED notWrapper
    /\ LazyStart(WrapperCall(op, ""), loops)

\* tool_func(query) of an adapted tool, up to run_until_complete
\* bound: at most MaxLoops adapted tool invocations, and none that would need
\* one more Client than MaxClients
ToolFunc(tool) ==
    /\ wrapper_pc = "idle"
    /\ UNCHANGED notWrapper
    /\ wrapper.adapted
    /\ Len(loops) < MaxLoops
    /\ wrapper.connected \/ Len(clients) < MaxClients
    /\ loops' = Append(loops, [state |-> "open", calls |-> 0])
    /\ wrapper_call' = [WrapperCall("tool_func", tool) EXCEPT !.loop = Len(loops) + 1]
    /\ wrapper_pc' = "run"
    /\ UNCHANGED <<wrapper, sessions, clients, wrapper_last>>

\* loop.run_until_complete(self.call_tool(name, **kwargs)) starts the call
RunCallTool ==
    /\ wrapper_pc = "run"
    /\ UNCHANGED notWrapper
    /\ LazyStart(wrapper_call, [loops EXCEPT ![wrapper_call.loop].calls = @ + 1])

\* `await client.__aenter__()` of the connect inside initialize returns or raises
WrapperEnterSession ==
    /\ wrapper_pc = "connect"
    /\ UNCHANGED notWrapper
    /\ LET c == wrapper_call
       IN \/ /\ clients' = [clients EXCEPT ![c.client].state = "open"]
             /\ sessions' = DictSet(sessions, [name |-> WrapperServer, client |-> c.client])
             /\ wrapper' = [wrapper EXCEPT !.connected = TRUE]
             /\ IF c.op = "initialize"
                THEN WrapperReturn(c, FALSE, "", "None", loops)
                ELSE SendRequest(c, sessions', loops)
          \/ \E e \in ConnectErrors :
             /\ clients' = [clients EXCEPT ![c.client].state = "failed"]
             /\ WrapperReturn(c, TRUE, e, "", loops)
             /\ UNCHANGED <<wrapper, sessions>>

\* the awaited session call returns or raises; the wrapper's except catches it
WrapperRequestDone ==
    /\ wrapper_pc = "request"
    /\ UNCHANGED notWrapper
    /\ LET c == wrapper_call
       IN \/ /\ WrapperReturn(c, FALSE, "", OkReturn(c), loops)
             /\ wrapper' = [wrapper EXCEPT !.adapted =
                               @ \/ c.op = "create_langchain_tools"]
          \/ \E e \in RequestErrors :
             /\ WrapperReturn(c, FALSE, e, ErrorReturn(c, e), loops)
             /\ UNCHANGED wrapper
    /\ UNCHANGED <<sessions, clients>>

\* await wrapper.cleanup(): MCPClient.cleanup closes every session, a failing
\* close is logged, the map is cleared
WrapperCleanup ==
    /\ wrapper_pc = "idle"
    /\ UNCHANGED notWrapper
    /\ LET c == WrapperCall("cleanup", "")
       IN /\ WrapperReturn(c, FALSE, "", "None", loops)
          /\ IF wrapper.mcp_client # 0 /\ wrapper.connected
             THEN /\ \E closed \in [{sessions[i].client : i \in 1..Len(sessions)}
                                       -> {"closed", "close_failed"}] :
                        clients' = [i \in 1..Len(clients) |->
                                       IF i \in DOMAIN closed
                                       THEN [clients[i] EXCEPT !.state = closed[i]]
                                       ELSE clients[i]]
                  /\ sessions' = <<>>
                  /\ wrapper' = [wrapper EXCEPT !.connected = FALSE]
             ELSE UNCHANGED <<wrapper, sessions, clients>>

WrapperNext ==
    \/ WrapperInitialize
    \/ \E tool \in {"search_tools", "get_registry_status"} : WrapperCallTool(tool)
    \/ \E op \in {"get_available_tools", "create_langchain_tools"} : GetAvailableTools(op)
    \/ \E tool \in {"search_tools", "get_registry_status"} : ToolFunc(tool)
    \/ RunCallTool
    \/ WrapperEnterSession
    \/ WrapperRequestDone
    \/ WrapperCleanup

WrapperSpec == Init /\ [][WrapperNext]_vars

(***************************************************************************)
(* global_server/server.py: the process entry point main().  Its registry  *)
(* is a local of main, the module global stays None.                       *)
(***************************************************************************)
\* no server has a required variable that os.getenv gives as None or ""
validate_environment(e) ==
    LET missing_vars ==
            SelectSeq(required_vars,
                      LAMBDA s : \E i \in 1..Len(s.vars) : ~TruthyStr(e[s.vars[i]]))
    IN missing_vars = <<>>

\* every environment the process can be started in: os.getenv gives None for
\* an unset variable, else the string, which may be empty
MainInit ==
    /\ registry = EmptyApp
    /\ all_tags = {}
    /\ is_initialized = FALSE
    /\ server_statuses = EmptyDict
    /\ tool_metadata = <<>>
    /\ tag_index = EmptyDict
    /\ import_count = NoImports
    /\ init_ended = FALSE
    /\ instance = 0
    /\ mcp_registry = 0
    /\ singleton = 0
    /\ clock = 0
    /\ pc = [t \in AllTasks |-> "idle"]
    /\ call = [t \in AllTasks |-> NewCall("none", NoArgs)]
    /\ log = <<>>
    /\ last = Running([op |-> "none", args |-> NoArgs, init_before |-> FALSE])
    /\ ClientInit
    /\ WrapperInit
    /\ GeminiInit
    /\ ServersInit
    /\ env \in [EnvVars -> {None, Some(""), Some("x")}]
    /\ main_pc = "start"
    /\ exit_status = None

notMain == <<registryVars, globalVars, clock, callVars, clientVars, wrapperVars,
             geminiVars, serverVars, env>>

\* the process ends: exit(1) gives status 1, a return from main status 0
MainExits(status) ==
    /\ main_pc' = "exited"
    /\ exit_status' = Some(status)

\* if not validate_environment(): log and return
ValidateEnvironment ==
    /\ main_pc = "start"
    /\ UNCHANGED notMain
    /\ IF validate_environment(env)
       THEN /\ main_pc' = "construct"
            /\ UNCHANGED exit_status
       ELSE MainExits(0)

\* registry = McpServersRegistry(); asyncio.run(init_registry()) begins
\* registry.initialize()
MainConstruct(t) ==
    /\ main_pc = "construct"
    /\ pc[t] = "idle"
    /\ call' = [call EXCEPT ![t] = NewCall("main", NoArgs)]
    /\ registry' = EmptyApp
    /\ all_tags' = {}
    /\ is_initialized' = FALSE
    /\ server_statuses' = EmptyDict
    /\ tool_metadata' = <<>>
    /\ tag_index' = EmptyDict
    /\ import_count' = NoImports
    /\ instance' = instance + 1
    /\ pc' = [pc EXCEPT ![t] = "import_asana"]
    /\ log' = << <<"initialize", "start">> >>
    /\ last' = Running(NewCall("main", NoArgs))
    /\ init_ended' = FALSE
    /\ main_pc' = "init_registry"
    /\ UNCHANGED <<mcp_registry, singleton, clock, clientVars, wrapperVars, geminiVars, serverVars,
                   env, exit_status>>

\* the registry is initialized and the management tools are registered: app.run()
MainRun(t) ==
    /\ main_pc = "init_registry"
    /\ pc[t] = "idle"
    /\ last.returned /\ ~last.raised
    /\ UNCHANGED notMain
    /\ main_pc' = "serving"
    /\ UNCHANGED exit_status

\* except Exception: initialize has raised
MainExcept(t) ==
    /\ main_pc = "init_registry"
    /\ pc[t] = "idle"
    /\ last.returned /\ last.raised
    /\ UNCHANGED notMain
    /\ MainExits(1)

\* app.run() ends: KeyboardInterrupt is logged and main returns, any other
\* exception ends in exit(1)
MainStop ==
    /\ main_pc = "serving"
    /\ UNCHANGED notMain
    /\ \/ MainExits(0)
       \/ MainExits(1)

MainNext ==
    \/ ValidateEnvironment
    \/ MainStop
    \/ \E t \in Tasks :
        \/ MainConstruct(t)
        \/ ImportAsanaServer(t)
        \/ ImportSlackServer(t)
        \/ ImportAgentScopeServer(t)
        \/ ImportGithubServer(t)
        \/ CollectAllTags(t)
        \/ BuildToolMetadata(t)
        \/ BuildTagIndex(t)
        \/ RegisterApiTools(t)
        \/ MainRun(t)
        \/ MainExcept(t)

MainSpec == MainInit /\ [][MainNext]_vars

(***************************************************************************)
(* Interleaved calls: two tasks of one event loop call into the same       *)
(* registry object, or into the same MCPClient; a task runs until its next *)
(* await, then any task may go on.                                         *)
(***************************************************************************)
ConcurrentNext ==
    \E t \in AllTasks :
        \/ Initialize(t)
        \/ SearchTools(t, NoArgs)
        \/ ImportAsanaServer(t)
        \/ ImportSlackServer(t)
        \/ ImportAgentScopeServer(t)
        \/ ImportGithubServer(t)
        \/ CollectAllTags(t)
        \/ BuildToolMetadata(t)
        \/ BuildTagIndex(t)
        \/ ResumeQuery(t)

ConcurrentSpec == Init /\ [][ConcurrentNext]_vars

\* a cleanup that overlaps a connect is left out (the session map would
\* change under cleanup's for loop)
ConcurrentClientNext ==
    \E t \in AllTasks :
        \/ /\ \A u \in AllTasks : client_pc[u] # "cleanup"
           /\ \E a \in ConnectInputs : Connect(t, a[1], a[2])
        \/ EnterSession(t)
        \/ /\ \A u \in AllTasks : client_pc[u] = "idle"
           /\ BeginCleanup(t, "cleanup", FALSE)
        \/ CloseSession(t)

ConcurrentClientSpec == Init /\ [][ConcurrentClientNext]_vars

(***************************************************************************)
(* mcp_client/connection_manager.py: ConnectionManager.  In ManagerSpec    *)
(* `sessions` is the manager's session map and `clients` the Client        *)
(* objects it made; its connect has the statements of MCPClient.connect    *)
(* and returns the session.                                                *)
(***************************************************************************)
\* del self._sessions[name]
DictDel(d, k) == SelectSeq(d, LAMBDA e : e.name # k)

\* disconnect(name), or disconnect_all over names = list(self._sessions.keys()),
\* up to the first `await session.__aexit__(None, None, None)`
BeginDisconnect(t, op, name, held) ==
    /\ client_pc[t] = "idle"
    /\ UNCHANGED notClient
    /\ LET c == [ClientCall(op, name, None) EXCEPT !.before = held]
       IN /\ client_call' = [client_call EXCEPT ![t] = c]
          /\ IF held = <<>>
             THEN ClientReturn(t, c, FALSE, "")
             ELSE /\ client_pc' = [client_pc EXCEPT ![t] = "disconnect"]
                  /\ UNCHANGED client_last
    /\ UNCHANGED <<sessions, clients, requests, scope>>

Disconnect(t, name) ==
    BeginDisconnect(t, "disconnect", name, SelectSeq(sessions, LAMBDA e : e.name = name))

DisconnectAll(t) == BeginDisconnect(t, "disconnect_all", "", sessions)

\* the awaited __aexit__ of the next session returns, and the name is deleted,
\* or raises, and the warning is logged
DisconnectSession(t) ==
    /\ client_pc[t] = "disconnect"
    /\ UNCHANGED notClient
    /\ LET c == client_call[t]
           held == c.before[Len(c.closing) + 1]
           d == [c EXCEPT !.closing = Append(@, held.client)]
       IN /\ \/ /\ clients' = [clients EXCEPT ![held.client].state = "closed"]
                /\ sessions' = DictDel(sessions, held.name)
             \/ /\ clients' = [clients EXCEPT ![held.client].state = "close_failed"]
                /\ UNCHANGED sessions
          /\ client_call' = [client_call EXCEPT ![t] = d]
          /\ IF Len(d.closing) = Len(c.before)
             THEN ClientReturn(t, d, FALSE, "")
             ELSE UNCHANGED <<client_pc, client_last>>
    /\ UNCHANGED <<requests, scope>>

ManagerNext ==
    \E t \in Tasks :
        \/ \E a \in ConnectInputs : Connect(t, a[1], a[2])
        \/ EnterSession(t)
        \/ \E name \in {"global", "asana", "nosuch"} : Disconnect(t, name)
        \/ DisconnectAll(t)
        \/ DisconnectSession(t)

ManagerSpec == Init /\ [][ManagerNext]_vars

(***************************************************************************)
(* servers/: the tools of the Asana, Slack and GitHub servers and the      *)
(* prompt of the agent_scope server.  A server handles one call at a time, *)
(* and a call is one step: its arguments and what the upstream service     *)
(* answers are the inputs, what the call returns or raises is kept in      *)
(* tool_result until it is sent.                                           *)
(***************************************************************************)
\* the servers started in any environment: os.getenv gives None for a
\* variable that is not set
ServerProcessInit ==
    /\ registry = EmptyApp
    /\ all_tags = {}
    /\ is_initialized = FALSE
    /\ server_statuses = EmptyDict
    /\ tool_metadata = <<>>
    /\ tag_index = EmptyDict
    /\ import_count = NoImports
    /\ instance = 1
    /\ mcp_registry = 0
    /\ init_ended = FALSE
    /\ singleton = 0
    /\ clock = 0
    /\ pc = [t \in AllTasks |-> "idle"]
    /\ call = [t \in AllTasks |-> NewCall("none", NoArgs)]
    /\ log = <<>>
    /\ last = Running([op |-> "none", args |-> NoArgs, init_before |-> FALSE])
    /\ ClientInit
    /\ WrapperInit
    /\ GeminiInit
    /\ ServersInit
    /\ env \in [EnvVars -> {None, Some(""), Some("x")}]
    /\ main_pc = "none"
    /\ exit_status = None

notServers == <<registryVars, globalVars, clock, callVars, clientVars, wrapperVars,
                geminiVars, mainVars>>

\* str.strip() for the blank character
RECURSIVE strip(_)
strip(s) ==
    IF s = "" THEN ""
    ELSE IF SubSeq(s, 1, 1) = " " THEN strip(SubSeq(s, 2, Len(s)))
    ELSE IF SubSeq(s, Len(s), Len(s)) = " " THEN strip(SubSeq(s, 1, Len(s) - 1))
    ELSE s

\* str(e) of the exception the upstream client raises
UpstreamError == "upstream request failed"

\* servers/asana_mcp/tools/find_task.py; c.upstream is what
\* AsanaClient.find_task does: a task, None (404) or an exception
find_task(c, e) ==
    IF c.id = "" \/ strip(c.id) = ""
    THEN Raised("Task GID is required and cannot be empty")
    ELSE IF ~TruthyStr(e["ASANA_PERSONAL_ACCESS_TOKEN"])
    THEN Raised("ASANA_PERSONAL_ACCESS_TOKEN environment variable is required")
    ELSE IF ~TruthyStr(e["ASANA_WORKSPACE_ID"])
    THEN Raised("ASANA_WORKSPACE_ID environment variable is required")
    ELSE CASE c.upstream = "ok" ->
                Returned([success |-> TRUE, task |-> Some(strip(c.id))])
           [] c.upstream = "not_found" ->
                Returned([success |-> FALSE,
                          error |-> "Task with GID '" \o c.id \o "' not found",
                          task |-> None])
           [] OTHER -> Raised(UpstreamError)

\* servers/asana_mcp/tools/create_task.py
create_task(c, e) ==
    IF c.id = "" \/ strip(c.id) = ""
    THEN Raised("Task name is required and cannot be empty")
    ELSE IF ~TruthyStr(e["ASANA_PERSONAL_ACCESS_TOKEN"])
    THEN Raised("ASANA_PERSONAL_ACCESS_TOKEN environment variable is required")
    ELSE IF ~TruthyStr(e["ASANA_WORKSPACE_ID"])
    THEN Raised("ASANA_WORKSPACE_ID environment variable is required")
    ELSE IF c.upstream = "ok"
    THEN Returned([success |-> TRUE, task |-> Some(strip(c.id))])
    ELSE Raised(UpstreamError)

\* servers/asana_mcp/tools/list_tasks.py
list_tasks(c, e) ==
    IF c.limit < 1 \/ c.limit > 100
    THEN Raised("Limit must be between 1 and 100")
    ELSE IF ~TruthyStr(e["ASANA_PERSONAL_ACCESS_TOKEN"])
    THEN Raised("ASANA_PERSONAL_ACCESS_TOKEN environment variable is required")
    ELSE IF ~TruthyStr(e["ASANA_WORKSPACE_ID"])
    THEN Raised("ASANA_WORKSPACE_ID environment variable is required")
    ELSE IF c.upstream = "ok"
    THEN Returned([success |-> TRUE, tasks |-> <<"T1">>, count |-> 1])
    ELSE Returned([success |-> FALSE, error |-> UpstreamError, tasks |-> <<>>,
                   count |-> 0])

\* servers/slack_mcp/tools/post_message.py, called without blocks
post_message(c, e) ==
    IF ~TruthyStr(c.text)
    THEN Returned([success |-> FALSE, error |-> "Either text or blocks must be provided"])
    ELSE IF c.id = "" \/ strip(c.id) = ""
    THEN Returned([success |-> FALSE, error |-> "Channel is required and cannot be empty"])
    ELSE IF ~TruthyStr(e["SLACK_BOT_TOKEN"])
    THEN Returned([success |-> FALSE,
                   error |-> "SLACK_BOT_TOKEN environment variable not set"])
    ELSE IF c.upstream = "ok"
    THEN Returned([success |-> TRUE,
                   message |-> [channel |-> strip(c.id), text |-> strip(c.text[1])]])
    ELSE Returned([success |-> FALSE, error |-> UpstreamError])

\* servers/slack_mcp/tools/get_last_messages.py (the tool
\* slack_conversation_history)
get_last_messages(c, e) ==
    IF c.id = "" \/ strip(c.id) = ""
    THEN Returned([success |-> FALSE, error |-> "Channel is required and cannot be empty"])
    ELSE IF c.limit <= 0 \/ c.limit > 1000
    THEN Returned([success |-> FALSE, error |-> "Limit must be between 1 and 1000"])
    ELSE IF ~TruthyStr(e["SLACK_BOT_TOKEN"])
    THEN Returned([success |-> FALSE,
                   error |-> "SLACK_BOT_TOKEN environment variable not set"])
    ELSE IF c.upstream = "ok"
    THEN Returned([success |-> TRUE, messages |-> <<"m1">>, count |-> 1])
    ELSE Returned([success |-> FALSE, error |-> UpstreamError])

\* servers/slack_mcp/tools/get_channels.py
get_channels(c, e) ==
    IF c.limit <= 0 \/ c.limit > 1000
    THEN Returned([success |-> FALSE, error |-> "Limit must be between 1 and 1000"])
    ELSE IF ~TruthyStr(e["SLACK_BOT_TOKEN"])
    THEN Returned([success |-> FALSE,
                   error |-> "SLACK_BOT_TOKEN environment variable not set"])
    ELSE IF c.upstream = "ok"
    THEN Returned([success |-> TRUE, channels |-> <<"general">>, count |-> 1])
    ELSE Returned([success |-> FALSE, error |-> UpstreamError])

\* the arguments of the calls: a name, gid or channel that is empty, blank
\* or given; a limit at and around the ends of both ranges
IdInputs == {"", " ", " T1 "}
LimitInputs == {0, 1, 100, 101, 1000, 1001}

\* the tools of the Asana server (servers/asana_mcp/main.py)
AsanaTool ==
    /\ tool_call.op = "none"
    /\ \E id \in IdInputs, limit \in LimitInputs, up \in {"ok", "not_found", "error"},
          op \in {"find_task", "create_task", "list_tasks"} :
          LET c == [NoToolCall EXCEPT !.op = op,
                                      !.id = IF op = "list_tasks" THEN "" ELSE id,
                                      !.limit = IF op = "list_tasks" THEN limit ELSE 0,
                                      !.upstream = up]
          IN  /\ op # "find_task" => up # "not_found"
              /\ tool_call' = c
              /\ tool_result' = CASE op = "find_task" -> find_task(c, env)
                                  [] op = "create_task" -> create_task(c, env)
                                  [] OTHER -> list_tasks(c, env)
    /\ UNCHANGED <<versioned_prompt, notServers>>

\* the tools of the Slack server (servers/slack_mcp/main.py)
SlackTool ==
    /\ tool_call.op = "none"
    /\ \E id \in IdInputs, limit \in LimitInputs, up \in {"ok", "error"},
          text \in {None, Some(""), Some(" hi ")},
          op \in {"post_message", "list_history", "list_channels"} :
          LET c == [NoToolCall EXCEPT !.op = op,
                                      !.id = IF op = "list_channels" THEN "" ELSE id,
                                      !.text = IF op = "post_message" THEN text ELSE None,
                                      !.limit = IF op = "post_message" THEN 0 ELSE limit,
                                      !.upstream = up]
          IN  /\ tool_call' = c
              /\ tool_result' = CASE op = "post_message" -> post_message(c, env)
                                  [] op = "list_history" -> get_last_messages(c, env)
                                  [] OTHER -> get_channels(c, env)
    /\ UNCHANGED <<versioned_prompt, notServers>>

\* servers/github_mcp/tools/: the key of the payload in the result of each
\* of the seven tools
PayloadKey ==
    [get_pull_request_tool |-> "pull_request",
     get_pull_request_diff_tool |-> "diff",
     get_pull_request_files_tool |-> "files",
     get_pull_request_comments_tool |-> "comments",
     get_pull_request_reviews_tool |-> "reviews",
     get_pull_request_status_tool |-> "pr_status",
     list_pull_requests_tool |-> "repository"]

\* the except branch of a tool: {"status": "error", "error": error_msg,
\* <payload key>: None}
GithubError(op, message) ==
    Returned(("status" :> "error") @@ ("error" :> "Failed: " \o message)
             @@ (PayloadKey[op] :> None))

\* status_summary[state] after the loop over the checks: the checks whose
\* lower-cased state is the key
StatusCountAsGiven(statuses, key) ==
    Cardinality({i \in 1..Len(statuses) : statuses[i] = key})
StatusCount(statuses, key) ==
    Cardinality({i \in 1..Len(statuses) : Lower(statuses[i]) = key})

\* servers/github_mcp/tools/get_pull_request_status.py; c.statuses holds
\* the state of each check the upstream returned, "" for a check without one
get_pull_request_status(c, e) ==
    IF ~TruthyStr(e["GITHUB_ACCESS_TOKEN"])
    THEN GithubError(c.op, "GITHUB_ACCESS_TOKEN environment variable is required")
    ELSE IF c.upstream # "ok" THEN GithubError(c.op, UpstreamError)
    ELSE Returned([status |-> "success",
                   pr_status |-> Some(
                       [total_statuses |-> Len(c.statuses),
                        summary |-> [success |-> StatusCount(c.statuses, "success"),
                                     pending |-> StatusCount(c.statuses, "pending"),
                                     failure |-> StatusCount(c.statuses, "failure"),
                                     error |-> StatusCount(c.statuses, "error")],
                        statuses |-> [i \in 1..Len(c.statuses) |-> Lower(c.statuses[i])]])])

\* the six other tools of servers/github_mcp/tools/: the whole body is in a
\* try whose except branch returns the error value
GithubOperation(c, e) ==
    IF ~TruthyStr(e["GITHUB_ACCESS_TOKEN"])
    THEN GithubError(c.op, "GITHUB_ACCESS_TOKEN environment variable is required")
    ELSE IF c.upstream # "ok" THEN GithubError(c.op, UpstreamError)
    ELSE Returned(("status" :> "success") @@ (PayloadKey[c.op] :> Some(c.id)))

\* the states a check can carry: the four the summary counts, in any case,
\* another one, and none
StatusInputs ==
    UNION {[1..n -> {"success", "Pending", "FAILURE", "error", "neutral", ""}] :
              n \in 0..MaxStatuses}

\* the tools of the GitHub server (servers/github_mcp/main.py): each reads
\* GITHUB_OWNER first
GithubTool ==
    /\ tool_call.op = "none"
    /\ \E op \in DOMAIN PayloadKey, up \in {"ok", "error"}, statuses \in StatusInputs :
          LET c == [NoToolCall EXCEPT !.op = op, !.id = "repo", !.upstream = up,
                                      !.statuses = statuses]
          IN  /\ op # "get_pull_request_status_tool" => statuses = <<>>
              /\ tool_call' = c
              /\ tool_result' =
                    IF ~TruthyStr(env["GITHUB_OWNER"])
                    THEN Returned([status |-> "error",
                                   error |-> "GITHUB_OWNER environment variable must be set"])
                    ELSE IF op = "get_pull_request_status_tool"
                    THEN get_pull_request_status(c, env)
                    ELSE GithubOperation(c, env)
    /\ UNCHANGED <<versioned_prompt, notServers>>

\* the server sends the result, or the error, to the caller and waits for the
\* next call
SendResult ==
    /\ tool_call.op # "none"
    /\ tool_call' = NoToolCall
    /\ tool_result' = Returned(EmptyDict)
    /\ UNCHANGED <<versioned_prompt, notServers>>

ServersNext ==
    \/ AsanaTool
    \/ SlackTool
    \/ GithubTool
    \/ SendResult

ServersSpec == ServerProcessInit /\ [][ServersNext]_vars

(***************************************************************************)
(* servers/agent_scope_mcp: the prompt pr_review_prompt and the            *)
(* VersionedPrompt object it formats.                                      *)
(***************************************************************************)
\* a formatted text, or the exception str.format raises
Formatted(text) == [raised |-> FALSE, exc |-> "", text |-> text]
FormatError(exc) == [raised |-> TRUE, exc |-> exc, text |-> ""]
\* the text goes before what the rest of the template formats to
Prepend(text, r) == IF r.raised THEN r ELSE [r EXCEPT !.text = text \o @]
\* the place of the first ch in s, 0 when there is none
Find(s, ch) ==
    IF \E i \in 1..Len(s) : SubSeq(s, i, i) = ch
    THEN CHOOSE i \in 1..Len(s) :
            /\ SubSeq(s, i, i) = ch
            /\ \A j \in 1..(i - 1) : SubSeq(s, j, j) # ch
    ELSE 0

\* str.format(**kwargs), from left to right: {{ and }} are braces, {name}
\* is kwargs[name], {} is the next positional argument (there is none), a
\* brace alone is an error.  Conversions and format specifications (!r, :>8)
\* are not modelled.
RECURSIVE Format(_, _)
Format(s, kwargs) ==
    IF s = "" THEN Formatted("")
    ELSE LET ch   == SubSeq(s, 1, 1)
             rest == SubSeq(s, 2, Len(s))
             next == IF rest = "" THEN "" ELSE SubSeq(rest, 1, 1)
         IN  IF ch = "{"
             THEN IF next = "{" THEN Prepend("{", Format(SubSeq(rest, 2, Len(rest)), kwargs))
                  ELSE LET close == Find(rest, "}")
                           name  == SubSeq(rest, 1, close - 1)
                       IN  IF close = 0 THEN FormatError("ValueError")
                           ELSE IF Find(name, "{") # 0 THEN FormatError("ValueError")
                           ELSE IF name = "" THEN FormatError("IndexError")
                           ELSE IF name \notin DOMAIN kwargs THEN FormatError("KeyError")
                           ELSE Prepend(kwargs[name],
                                        Format(SubSeq(rest, close + 1, Len(rest)), kwargs))
             ELSE IF ch = "}"
             THEN IF next = "}" THEN Prepend("}", Format(SubSeq(rest, 2, Len(rest)), kwargs))
                  ELSE FormatError("ValueError")
             ELSE Prepend(ch, Format(rest, kwargs))

\* pr_review_prompt without its except branch
pr_review_prompt_raising(pr_id, repo_id, e, p) ==
    LET owner  == IF TruthyStr(e["GITHUB_OWNER"]) THEN e["GITHUB_OWNER"][1] ELSE "unknown"
        pr_url == "https://github.com/" \o owner \o "/" \o repo_id \o "/pull/" \o pr_id
        f      == Format(p.template, [pr_id |-> pr_id, pr_url |-> pr_url])
    IN  IF f.raised THEN Raised(f.exc) ELSE Returned([text |-> f.text])

\* servers/agent_scope_mcp/main.py pr_review_prompt; VersionedPrompt.format
\* re-raises what str.format raises, VersionedPrompt.get returns the template
pr_review_prompt(pr_id, repo_id, e, p) ==
    LET owner  == IF TruthyStr(e["GITHUB_OWNER"]) THEN e["GITHUB_OWNER"][1] ELSE "unknown"
        pr_url == "https://github.com/" \o owner \o "/" \o repo_id \o "/pull/" \o pr_id
        f      == Format(p.template, [pr_id |-> pr_id, pr_url |-> pr_url])
    IN  IF f.raised THEN Returned([text |-> p.template]) ELSE Returned([text |-> f.text])

\* the prompt is asked for: the call holds pr_id in id and repo_id in text
PrReviewPrompt ==
    /\ tool_call.op = "none"
    /\ \E pr_id \in {"7", "{7}"}, repo_id \in {"repo"} :
          /\ tool_call' = [NoToolCall EXCEPT !.op = "pr_review_prompt", !.id = pr_id,
                                             !.text = Some(repo_id)]
          /\ tool_result' = pr_review_prompt(pr_id, repo_id, env, versioned_prompt)
    /\ UNCHANGED <<versioned_prompt, notServers>>

\* templates with the two placeholders, with another one, with a positional
\* one, with doubled braces and with a brace alone
TemplateInputs ==
    {"Review {pr_id} at {pr_url}", "Review {pr_id} for {task_id}", "Review {}",
     "{{pr}}: {pr_id}", "Review {pr_id", "Review pr_id}", "Review"}

\* VersionedPrompt.update_template
UpdateTemplate ==
    /\ tool_call.op = "none"
    /\ \E new_template \in TemplateInputs, new_version \in {None, Some(""), Some("2.0.0")} :
          versioned_prompt' =
              [template |-> new_template,
               version |-> IF TruthyStr(new_version) THEN new_version[1]
                           ELSE versioned_prompt.version]
    /\ UNCHANGED <<tool_call, tool_result, notServers>>

AgentScopeNext ==
    \/ PrReviewPrompt
    \/ UpdateTemplate
    \/ SendResult

AgentScopeSpec == ServerProcessInit /\ [][AgentScopeNext]_vars

(***************************************************************************)
(* Properties.                                                             *)
(***************************************************************************)
IsPrefix(a, b) == Len(a) <= Len(b) /\ SubSeq(b, 1, Len(a)) = a
Count(d, k) == Cardinality({i \in 1..Len(d) : d[i].name = k})

\* C1: an initialize call on an initialized registry returns at once: it
\* runs no import and leaves the catalog, all_tags, the status map, the
\* metadata map and the tag index as they were.
C1_InitializeIdempotent ==
    [][\A t \in Tasks :
         (pc[t] = "idle" /\ is_initialized /\ call'[t].op = "initialize")
         => /\ pc'[t] = "idle"
            /\ last'.returned /\ ~last'.raised
            /\ UNCHANGED <<registry, all_tags, is_initialized, server_statuses,
                           tool_metadata, tag_index, import_count>>]_vars
C1_Witness ==
    /\ last.op = "initialize" /\ last.returned /\ last.init_before
    /\ log = << <<"initialize", "skipping">> >>

\* C2: one initialize run imports asana, slack, scope, github in this order,
\* one after the other; a failed import ends the run: no later import,
\* no tag collection, no metadata build and no index build follow it.
InitializeOrder ==
    << <<"initialize", "start">>, <<"asana", "imported">>, <<"slack", "imported">>,
       <<"scope", "imported">>, <<"github", "imported">>, <<"collect_all_tags", "done">>,
       <<"build_tool_metadata", "done">>, <<"build_tag_index", "done">>,
       <<"initialize", "complete">> >>
FailedAt(k) ==
    SubSeq(InitializeOrder, 1, k) \o << <<Prefixes[k], "error">>, <<"initialize", "failed">> >>
C2_SequentialImports ==
    /\ \/ log = <<>>
       \/ log = << <<"initialize", "skipping">> >>
       \/ IsPrefix(log, InitializeOrder)
       \/ \E k \in 1..Len(Prefixes) : log = FailedAt(k)
    /\ \A i \in 1..(Len(Prefixes) - 1) :
          import_count[Prefixes[i + 1]] <= import_count[Prefixes[i]]
    /\ (all_tags # {} \/ tool_metadata # <<>> \/ DOMAIN tag_index # {})
          => \A p \in Range(Prefixes) :
                /\ p \in DOMAIN server_statuses
                /\ server_statuses[p] = "imported"
C2_Witness ==
    /\ log = FailedAt(3)
    /\ import_count["github"] = 0
    /\ tool_metadata = <<>>

\* C3: every import attempt leaves its outcome in the status map under its
\* prefix, "imported" or "error: <message>"; a failed import is raised out of
\* initialize and is_initialized() is false afterwards.
C3_ImportOutcomeRecorded ==
    /\ \A p \in DOMAIN server_statuses :
          server_statuses[p] = "imported" \/ StartsWith(server_statuses[p], "error: ")
    /\ \A i \in 1..Len(log) :
          LET p == log[i][1]
          IN p \in Range(Prefixes) =>
                /\ p \in DOMAIN server_statuses
                /\ log[i][2] = "imported" => server_statuses[p] = "imported"
                /\ log[i][2] = "error" =>
                      /\ StartsWith(server_statuses[p], "error: ")
                      /\ last.returned /\ last.raised /\ ~last.init_after
                      /\ ~is_initialized
                      /\ \A t \in Tasks : pc[t] = "idle"
C3_Witness ==
    /\ \E i \in 1..Len(log) : log[i] = <<"slack", "error">>
    /\ last.op = "initialize" /\ last.raised
    /\ server_statuses["asana"] = "imported"

\* C4: while the registry is initialized, tool t is in the index entry of
\* tag g exactly when t has a metadata entry whose tags contain g.
C4_IndexAgreesWithMetadata ==
    is_initialized =>
        /\ \A g \in DOMAIN tag_index : \A n \in tag_index[g] :
              Has(tool_metadata, n) /\ g \in Get(tool_metadata, n).tags
        /\ \A i \in 1..Len(tool_metadata) : \A g \in tool_metadata[i].tags :
              g \in DOMAIN tag_index /\ tool_metadata[i].name \in tag_index[g]
C4_Witness ==
    /\ is_initialized
    /\ clock >= 1
    /\ last.op = "get_tag_statistics"
    /\ Cardinality(DOMAIN tag_index) > 1

\* C5 (as claimed): every query operation that returns an answer has
\* initialized the registry first.
QueryOps ==
    {"get_tools_by_tag", "search_tools", "get_tools_by_tags", "get_tool_metadata",
     "get_tools_by_server", "get_tag_statistics", "record_tool_usage", "get_popular_tools"}
C5_EveryQueryInitializes ==
    (last.op \in QueryOps /\ last.returned /\ ~last.raised) => last.init_after

\* C6: record_tool_usage(name) on a known name adds 1 to that entry's
\* usage_count and stamps its last_used, other entries stay; on an unknown
\* name the metadata map stays as it was.
C6_RecordToolUsage ==
    [][\A t \in Tasks :
         (pc[t] = "idle" /\ call'[t].op = "record_tool_usage")
         => LET n == call'[t].args.tool_name
            IN IF Has(tool_metadata, n)
               THEN /\ Len(tool_metadata') = Len(tool_metadata)
                    /\ \A i \in 1..Len(tool_metadata) :
                          IF tool_metadata[i].name = n
                          THEN /\ tool_metadata'[i].usage_count
                                     = tool_metadata[i].usage_count + 1
                               /\ tool_metadata'[i].last_used # None
                               /\ [tool_metadata'[i] EXCEPT !.usage_count = 0,
                                                            !.last_used = None]
                                  = [tool_metadata[i] EXCEPT !.usage_count = 0,
                                                             !.last_used = None]
                          ELSE tool_metadata'[i] = tool_metadata[i]
               ELSE tool_metadata' = tool_metadata]_vars
C6_Witness ==
    /\ last.op = "record_tool_usage" /\ last.returned
    /\ Has(tool_metadata, last.args.tool_name)
    /\ Get(tool_metadata, last.args.tool_name).usage_count = 2
    /\ \E i \in 1..Len(tool_metadata) : tool_metadata[i].usage_count = 0

\* C7: on an initialized registry only record_tool_usage changes a
\* ToolMetadata entry, and no operation on a registry object removes one.
ReadOnlyOps ==
    {"search_tools", "get_tools_by_tag", "get_tools_by_tags", "get_tool_metadata",
     "get_tools_by_server", "get_tag_statistics", "get_popular_tools", "health_check"}
C7_OnlyRecordChangesMetadata ==
    [][/\ \A t \in Tasks :
            (pc[t] = "idle" /\ is_initialized /\ call'[t].op \in ReadOnlyOps)
            => tool_metadata' = tool_metadata
       /\ (is_initialized /\ instance' = instance /\ tool_metadata' # tool_metadata)
            => \E t \in Tasks : pc[t] = "idle" /\ call'[t].op = "record_tool_usage"
       /\ instance' = instance => Keys(tool_metadata) \subseteq Keys(tool_metadata')]_vars
C7_Witness ==
    /\ last.op = "search_tools" /\ last.returned /\ last.init_before
    /\ \E i \in 1..Len(tool_metadata) : tool_metadata[i].usage_count > 0

\* C8 (as claimed): search_tools returns the entries that pass the filters,
\* by usage_count descending, ties in catalog order, and at most limit
\* entries for every integer limit given, 0 included.
Position(d, k) == CHOOSE i \in 1..Len(d) : d[i].name = k
C8_SearchResult ==
    (last.op = "search_tools" /\ last.returned /\ ~last.raised) =>
        LET r == last.ret.list
            a == last.args
            pass == Range(Names(SearchFilter(tool_metadata, a)))
        IN /\ Range(r) \subseteq pass
           /\ \A i, j \in 1..Len(r) : i < j =>
                 LET x == Get(tool_metadata, r[i])
                     y == Get(tool_metadata, r[j])
                 IN \/ x.usage_count > y.usage_count
                    \/ /\ x.usage_count = y.usage_count
                       /\ Position(tool_metadata, r[i]) < Position(tool_metadata, r[j])
           /\ \A n \in pass \ Range(r) : \A i \in 1..Len(r) :
                 LET x == Get(tool_metadata, r[i])
                     y == Get(tool_metadata, n)
                 IN \/ x.usage_count > y.usage_count
                    \/ /\ x.usage_count = y.usage_count
                       /\ Position(tool_metadata, r[i]) < Position(tool_metadata, n)
           /\ a.limit = None => Range(r) = pass
           /\ a.limit # None => Len(r) <= a.limit[1]
           /\ (a.limit # None /\ a.limit[1] >= 0)
                 => Len(r) = Min(a.limit[1], Cardinality(pass))

\* C9: get_tools_by_tags with a non-empty tag list returns the tools that
\* carry every requested tag (match_all) or at least one of them (otherwise).
C9_ToolsByTags ==
    (last.op = "get_tools_by_tags" /\ last.returned /\ ~last.raised
        /\ last.args.tags[1] # <<>>) =>
        LET wanted == Range(last.args.tags[1])
            carrying(m) == IF last.args.match_all
                           THEN wanted \subseteq m.tags
                           ELSE wanted \cap m.tags # {}
        IN last.ret.names =
              {tool_metadata[i].name :
                  i \in {j \in 1..Len(tool_metadata) : carrying(tool_metadata[j])}}
C9_Witness ==
    /\ last.op = "get_tools_by_tags" /\ last.returned
    /\ last.args.tags = Some(<<"task", "list">>)
    /\ last.args.match_all
    /\ last.ret.names = {"asana_list_tasks_tool"}

\* C10: once the global server is initialized, every tool or prompt n of the
\* sub-server imported under prefix p is in the catalog once as p_n and not
\* as n, and the catalog's only unprefixed tool names are the seven
\* registry-management tools.
Unprefixed(name) == \A p \in Range(Prefixes) : ~StartsWith(name, p \o "_")
C10_Namespacing ==
    (mcp_registry # 0 /\ is_initialized) =>
        /\ \A p \in Range(Prefixes) :
              /\ \A i \in 1..Len(ServerOf(p).tools) :
                    LET n == ServerOf(p).tools[i].name
                    IN /\ Count(registry.tools, p \o "_" \o n) = 1
                       /\ Count(registry.tools, n) = 0
              /\ \A i \in 1..Len(ServerOf(p).prompts) :
                    LET n == ServerOf(p).prompts[i].name
                    IN /\ Count(registry.prompts, p \o "_" \o n) = 1
                       /\ Count(registry.prompts, n) = 0
        /\ {n \in Keys(registry.tools) : Unprefixed(n)} \subseteq Keys(ApiTools)
        /\ (last.op \in GlobalOps /\ last.returned /\ ~last.raised /\ log = InitializeOrder)
              => {n \in Keys(registry.tools) : Unprefixed(n)} = Keys(ApiTools)
C10_Witness ==
    /\ last.op = "initialize_global_server" /\ last.returned /\ ~last.raised
    /\ mcp_registry = instance
    /\ Len(registry.tools) = 20

\* C11: once an initialize run on a registry object has returned or raised,
\* no later step on that object (another initialize included) adds, removes
\* or changes an entry of its server-status map.
C11_StatusMapFrozen ==
    [][(init_ended /\ instance' = instance) => server_statuses' = server_statuses]_vars

\* C19: get_global_registry builds and initializes a registry when the
\* global is None or holds a registry that is not initialized; once a call
\* has returned an initialized registry, every later call returns that very
\* object at once, building and initializing nothing.
C19_GlobalSingleton ==
    [][\A t \in Tasks :
         (pc[t] = "idle" /\ call'[t].op = "get_global_registry")
         => /\ (mcp_registry = 0 \/ ~is_initialized)
                => (instance' = instance + 1 /\ mcp_registry' = instance'
                      /\ pc'[t] = "import_asana")
            /\ singleton # 0
                => /\ pc'[t] = "idle"
                   /\ last'.returned /\ ~last'.raised
                   /\ last'.ret.registry = singleton
                   /\ UNCHANGED <<registryVars, instance, mcp_registry>>]_vars

\* C12: a connect call whose name is already in the session map returns at
\* once: it makes no Client (no transport, no new session) and leaves the
\* session map, for that name and for every other, as it was.
C12_ConnectIdempotent ==
    [][\A t \in Tasks :
         (client_pc[t] = "idle" /\ client_call'[t].op = "connect"
            /\ Has(sessions, client_call'[t].name))
         => /\ client_pc'[t] = "idle"
            /\ client_last'.call = client_call'[t] /\ ~client_last'.raised
            /\ UNCHANGED <<sessions, clients, requests>>]_vars
C12_Witness ==
    /\ client_last.call.op = "connect" /\ ~client_last.raised
    /\ client_last.call.client = 0
    /\ client_last.call.base_url = Some("")
    /\ Has(sessions, client_last.call.name)
    /\ clients[SessionGet(client_last.call.name)].transport = "stdio"
    /\ Len(sessions) = 2

\* C13: call_tool, list_tools, list_prompts and get_prompt on a name that has
\* no session in the map raise the Not-Connected error, send nothing and
\* leave the session map as it was.
C13_NotConnected ==
    [][\A t \in Tasks :
         (client_pc[t] = "idle" /\ client_call'[t].op \in RequestOps
            /\ ~Has(sessions, client_call'[t].name))
         => /\ client_pc'[t] = "idle"
            /\ client_last'.call = client_call'[t]
            /\ client_last'.raised
            /\ client_last'.error = NotConnected(client_call'[t].name)
            /\ UNCHANGED <<sessions, clients, requests>>]_vars
C13_Witness ==
    /\ client_last.call.op = "get_prompt" /\ client_last.raised
    /\ client_last.error = "Server asana not connected"
    /\ \E i \in 1..Len(clients) : clients[i].transport = "http" /\ clients[i].state = "closed"
    /\ ~Has(sessions, "asana")

\* C14: cleanup tries to close every session of the map, in the map's
\* order; a close that raises stops neither the remaining closes nor
\* cleanup itself, which returns normally with the session map empty.
C14_CleanupClosesAll ==
    /\ \A t \in Tasks :
          client_pc[t] = "cleanup"
          => LET c == client_call[t]
             IN /\ sessions = c.before
                /\ Len(c.closing) < Len(c.before)
                /\ c.closing = SubSeq(SessionClients(c.before), 1, Len(c.closing))
    /\ client_last.call.op \in {"cleanup", "__aexit__"}
          => /\ ~client_last.raised
             /\ client_last.call.closing = SessionClients(client_last.call.before)
             /\ \A i \in Range(client_last.call.closing) :
                   clients[i].state \in {"closed", "close_failed"}
             /\ sessions = <<>>
C14_Witness ==
    /\ client_last.call.op = "cleanup"
    /\ Len(client_last.call.closing) = 2
    /\ clients[client_last.call.closing[1]].state = "close_failed"
    /\ clients[client_last.call.closing[2]].state = "closed"

\* C15: the `async with` block is left only through __aexit__, which runs
\* cleanup whether the block ended or raised: when the block has been left,
\* a close was tried on every session the map held and the map is empty.
C15_ScopedCleanup ==
    [][(scope = "inside" /\ scope' = "outside")
         => /\ client_last'.call.op = "__aexit__"
            /\ client_last'.call.closing = SessionClients(client_last'.call.before)
            /\ \A i \in Range(SessionClients(sessions)) :
                  clients'[i].state \in {"closed", "close_failed"}
            /\ sessions' = <<>>]_vars
C15_Witness ==
    /\ scope = "outside"
    /\ client_last.call.op = "__aexit__" /\ client_last.call.exc
    /\ Len(client_last.call.before) = 2
    /\ sessions = <<>>

\* C16 as stated: N generate calls since construction or the last
\* clear_conversation leave exactly 2N entries in the history.
C16_TwoEntriesPerCall == Len(conversation) = 2 * generated.calls

\* C16 as amended: the history holds one user entry for every generate call
\* that was given a non-empty prompt and one model entry for every generate
\* call that returned, so N calls that were all given a prompt and all
\* returned leave 2N entries; with no call since construction or the last
\* clear_conversation it is empty.
C16_OneEntryPerTurn ==
    /\ Len(conversation) = generated.prompted + generated.returned
    /\ Cardinality({i \in 1..Len(conversation) : conversation[i].role = "user"})
          = generated.prompted
    /\ (generated.prompted = generated.calls /\ generated.returned = generated.calls)
          => Len(conversation) = 2 * generated.calls
    /\ generated.calls = 0 => conversation = <<>>
C16_Witness ==
    /\ generated = [calls |-> 3, prompted |-> 3, returned |-> 3]
    /\ Len(conversation) = 6
    /\ GeminiRole(conversation[5]) = "user" /\ GeminiRole(conversation[6]) = "model"

\* C17: a tool call through the wrapper (call_tool, or an adapted tool's
\* tool_func) never raises to its caller; when the call on the protocol client
\* failed, it returned a text that starts with "Error: " and the wrapper is
\* still connected.
C17_ErrorsBecomeText ==
    (wrapper_pc = "idle" /\ wrapper_last.call.op \in {"call_tool", "tool_func"}) =>
        /\ ~wrapper_last.raised
        /\ wrapper_last.error # "" =>
              /\ StartsWith(wrapper_last.result, "Error: ")
              /\ wrapper.connected

\* C18: every invocation of an adapted tool makes one new event loop, runs
\* exactly one tool call on it, and the loop is closed when the invocation
\* ends, whether the call returned or raised.
C18_LoopPerInvocation ==
    /\ wrapper_pc = "idle" =>
          \A i \in 1..Len(loops) : loops[i] = [state |-> "closed", calls |-> 1]
    /\ (wrapper_pc # "idle" /\ wrapper_call.op = "tool_func") =>
          /\ wrapper_call.loop = Len(loops)
          /\ loops[Len(loops)].state = "open"
          /\ loops[Len(loops)].calls = (IF wrapper_pc = "run" THEN 0 ELSE 1)
          /\ \A i \in 1..(Len(loops) - 1) : loops[i] = [state |-> "closed", calls |-> 1]
    /\ (wrapper_pc # "idle" /\ wrapper_call.op # "tool_func") =>
          \A i \in 1..Len(loops) : loops[i] = [state |-> "closed", calls |-> 1]
C18_Witness ==
    /\ wrapper_pc = "idle"
    /\ wrapper_last.call.op = "tool_func"
    /\ wrapper_last.raised
    /\ Len(loops) = 2
    /\ loops[wrapper_last.call.loop].state = "closed"

\* C20: when a required environment variable is missing as the global server
\* process starts, the process ends with a non-zero status, and no registry
\* has been constructed, initialized or served.
C20_MissingVariableExitsNonZero ==
    ~validate_environment(env) =>
        /\ instance = 0
        /\ main_pc \in {"start", "exited"}
        /\ main_pc = "exited" => (exit_status # None /\ exit_status # Some(0))

\* C27: over any sequence of initialize calls on one registry object, a failed
\* call followed by a retry included, no sub-server is imported into the
\* object more than once.
C27_ImportedAtMostOnce == \A p \in Range(Prefixes) : import_count[p] <= 1

\* C28: once initialize_global_server has returned, the tool names that have
\* a ToolMetadata entry are the tool names of the served catalog, the
\* registry-management tools included.
C28_MetadataCoversCatalog ==
    (last.op = "initialize_global_server" /\ last.returned /\ ~last.raised) =>
        /\ health_check.tool_names # None
        /\ Keys(tool_metadata) = Range(health_check.tool_names[1])

\* C29: a generate call whose model invocation raises leaves the conversation
\* as it was before the call.
C29_FailedGenerateKeepsHistory ==
    [][(generated'.calls = generated.calls + 1 /\ generated'.returned = generated.returned)
          => conversation' = conversation]_vars

\* C25: under every interleaving of calls that start on an uninitialized
\* registry, no second initialization starts while one is suspended at an
\* import, and the initialized registry has every sub-server imported once.
C25_OneInitializationAtATime ==
    /\ Cardinality({t \in AllTasks : pc[t] \notin {"idle", "body"}}) <= 1
    /\ (is_initialized /\ \A p \in DOMAIN server_statuses :
                             ~StartsWith(server_statuses[p], "error")) =>
          \A p \in Range(Prefixes) : import_count[p] >= 1

\* C26: under every interleaving of connect calls on one MCPClient, every
\* session that was opened and not closed is held in the session map, where
\* the next cleanup finds it.
C26_OpenSessionsAreHeld ==
    \A i \in 1..Len(clients) :
        clients[i].state = "open" => \E j \in 1..Len(sessions) : sessions[j].client = i

\* C30: once disconnect_all has returned, no name is connected and no
\* session is held, also when closing a session raised; once disconnect(name)
\* has returned, the name is not in the session map.
C30_DisconnectRemoves ==
    /\ client_last.call.op = "disconnect_all" =>
          \A name \in {"global", "asana"} : ~Has(sessions, name) /\ SessionGet(name) = 0
    /\ (client_last.call.op = "disconnect" /\ client_pc["main"] = "idle") =>
          ~Has(sessions, client_last.call.name)

\* C21: no Asana or Slack tool call raises: a call that failed validation,
\* found a variable missing or got an upstream error returned a value with
\* success = false and an error string
C21_ToolsNeverRaise ==
    tool_call.op \in {"find_task", "create_task", "list_tasks",
                      "post_message", "list_history", "list_channels"}
    => /\ ~tool_result.raised
       /\ "success" \in DOMAIN tool_result.value
       /\ tool_call.upstream # "ok" => ~tool_result.value.success
       /\ ~tool_result.value.success
          => /\ "error" \in DOMAIN tool_result.value
             /\ tool_result.value.error # ""

\* C22: every failure of a GitHub tool, the unset GITHUB_OWNER included,
\* returns status "error", an error message and the payload key of the tool
\* with no value, and the call does not raise
C22_GithubFailuresCarryPayloadKey ==
    /\ tool_call.op \in DOMAIN PayloadKey
    /\ \/ ~TruthyStr(env["GITHUB_OWNER"])
       \/ ~TruthyStr(env["GITHUB_ACCESS_TOKEN"])
       \/ tool_call.upstream # "ok"
    => /\ ~tool_result.raised
       /\ tool_result.value.status = "error"
       /\ tool_result.value.error # ""
       /\ PayloadKey[tool_call.op] \in DOMAIN tool_result.value
       /\ tool_result.value[PayloadKey[tool_call.op]] = None

\* the summary of a status call that succeeded
C23_Summary == tool_result.value.pr_status[1].summary
C23_StatusReturned ==
    /\ tool_call.op = "get_pull_request_status_tool"
    /\ tool_result.value.status = "success"

\* C23 as stated: whatever state each check carries, the four counters of
\* the summary add up to total_statuses
C23_CountersSumToTotal ==
    C23_StatusReturned
    => C23_Summary.success + C23_Summary.pending + C23_Summary.failure
         + C23_Summary.error = tool_result.value.pr_status[1].total_statuses

\* C23: total_statuses is the number of checks, and the four counters add up
\* to the number of checks whose state, in lower case, is success, pending,
\* failure or error
C23_CountersSumToKnownStates ==
    C23_StatusReturned
    => /\ tool_result.value.pr_status[1].total_statuses = Len(tool_call.statuses)
       /\ C23_Summary.success + C23_Summary.pending + C23_Summary.failure
            + C23_Summary.error
          = Cardinality({i \in 1..Len(tool_call.statuses) :
                Lower(tool_call.statuses[i])
                    \in {"success", "pending", "failure", "error"}})

\* a status call returned for two checks, one in upper case and one with a
\* state the summary does not count
C23_Witness ==
    /\ C23_StatusReturned
    /\ tool_call.statuses = <<"FAILURE", "neutral">>
    /\ C23_Summary.failure = 1
    /\ tool_result.value.pr_status[1].total_statuses = 2

\* C24: pr_review_prompt never raises; with GITHUB_OWNER unset the URL it
\* substitutes has the owner "unknown"; when the current template cannot be
\* formatted with pr_id and pr_url it returns the current template as it is
C24_PromptNeverFails ==
    tool_call.op = "pr_review_prompt"
    => /\ ~tool_result.raised
       /\ versioned_prompt.template \in
              {"Review {pr_id} for {task_id}", "Review {}", "Review {pr_id", "Review pr_id}"}
          => tool_result.value.text = versioned_prompt.template
       /\ versioned_prompt.template = "{{pr}}: {pr_id}"
          => tool_result.value.text = "{pr}: " \o tool_call.id
       /\ versioned_prompt.template = "Review {pr_id} at {pr_url}"
             /\ ~TruthyStr(env["GITHUB_OWNER"])
          => tool_result.value.text
               = "Review " \o tool_call.id \o " at https://github.com/unknown/"
                   \o tool_call.text[1] \o "/pull/" \o tool_call.id
       /\ versioned_prompt = PR_REVIEW_PROMPT /\ env["GITHUB_OWNER"] = Some("x")
          => tool_result.value.text
               = "- PR ID: " \o tool_call.id \o " - PR URL: https://github.com/x/"
                   \o tool_call.text[1] \o "/pull/" \o tool_call.id

\* the prompt was asked for after update_template installed a template with
\* the placeholder task_id, with GITHUB_OWNER unset: the template came back
C24_Witness ==
    /\ tool_call.op = "pr_review_prompt"
    /\ env["GITHUB_OWNER"] = None
    /\ versioned_prompt.template = "Review {pr_id} for {task_id}"
    /\ versioned_prompt.version = "2.0.0"
    /\ tool_result = Returned([text |-> "Review {pr_id} for {task_id}"])
====
